---- MODULE Spec2Model ----
(***************************************************************************)
(* Fixed-capacity containers of Embedded-System-Libraries.                 *)
(*                                                                         *)
(* Two objects of each container class are exercised by every public       *)
(* operation.  The latest Queue and Stack (in-place storage), the first    *)
(* release of the Queue (an array of elements) and the Array each have a   *)
(* specification of their own.  A latest container is a record holding the members of the class    *)
(* under their source names, plus ghost fields:                            *)
(*   live     the set of storage cells that hold a constructed element     *)
(*            (placement new adds a cell, an explicit destructor call      *)
(*            removes it),                                                 *)
(*   order    the live cells in the order their elements were constructed, *)
(*   balance  the placement constructions minus the explicit destructions  *)
(*            of the elements the storage holds,                           *)
(*   misuse   whether an element was constructed in a live cell or a       *)
(*            destructor called on a dead cell of this object,             *)
(*   trace    when switched on, the constructions and destructions made    *)
(*            in the storage, in the order they happen (off in every       *)
(*            state; a property switches it on to observe one call),       *)
(*   alive    whether the container object itself is constructed.          *)
(* A cell holds the value of the element constructed in it, or Dead when   *)
(* it holds none (never constructed, or destroyed).                        *)
(***************************************************************************)
EXTENDS Integers, Sequences, FiniteSets, TLC

(* ---------------------------- bounds ---------------------------------- *)
\* Largest capacity instantiated: the template argument SIZE of
\* Queue<T, SIZE> and Stack<T, SIZE> ranges over 1..MaxSIZE.
MaxSIZE == 2
\* The element type T holds the values 1..MaxVal.
MaxVal == 2

Values == 1..MaxVal
\* Content of a storage cell that holds no constructed element.
Dead == 0
\* The two container objects of each class.
Objs == {"a", "b"}
\* The classes: each behaviour exercises the objects of one class.
Units == {"Queue", "Stack"}
\* The value of a default-constructed element, T().
Default == 0

VARIABLES
    SIZE,    \* the capacity the classes are instantiated with
    unit,    \* the class whose objects this behaviour exercises
    queue,   \* Objs -> latest Queue<T, SIZE>
    stack,   \* Objs -> latest Stack<T, SIZE>
    queue1,  \* Objs -> first-release Queue<T, SIZE>
    array,   \* the Array objects
    uSIZE,   \* the size of the source of a converting Array copy
    stack1,  \* Objs -> first-release Stack<T, SIZE>
    stack2,  \* Objs -> byte-buffer Stack<T, SIZE>
    build,   \* sizeof(T) and the byte order of the build
    array0,  \* Objs -> early Array<T, SIZE>
    last     \* the last call: its name, its object, the size() of the
             \* object before it, its returned value

vars == <<SIZE, unit, queue, stack, queue1, array, uSIZE, stack1, stack2,
         build, array0, last>>

\* aligned_data data[SIZE]: the indices of the storage cells
Cells == 0..(SIZE - 1)

(* ------------------- in-place storage (both classes) ------------------- *)
\* new(data + cell) value_type(value)
Construct(obj, cell, value) ==
    [obj EXCEPT !.data[cell] = value, !.live = @ \cup {cell},
                !.order = Append(@, cell), !.balance = @ + 1,
                !.misuse = @ \/ (cell \in obj.live),
                !.trace.events =
                    IF obj.trace.on
                    THEN Append(@, [kind |-> "new", cell |-> cell,
                                    value |-> value])
                    ELSE @]

\* at(cell).~value_type()
Destruct(obj, cell) ==
    [obj EXCEPT !.data[cell] = Dead, !.live = @ \ {cell},
                !.order = SelectSeq(@, LAMBDA c : c # cell),
                !.balance = @ - 1,
                !.misuse = @ \/ (cell \notin obj.live),
                !.trace.events =
                    IF obj.trace.on
                    THEN Append(@, [kind |-> "delete", cell |-> cell,
                                    value |-> obj.data[cell]])
                    ELSE @]

(* ------------------------------ Queue ---------------------------------- *)
\* IncrementIndex without the wrap at SIZE-1.
IncrementIndex_NoWrap(index) == index + 1

\* void IncrementIndex(size_type& index): the value index is left with
IncrementIndex(index) ==
    IF SIZE - 1 = index THEN 0 ELSE index + 1

Queue_empty(q) == 0 = q.sz

\* Queue_full comparing the size with SIZE-1.
Queue_full_OffByOne(q) == SIZE - 1 = q.sz

Queue_full(q) == SIZE = q.sz
Queue_size(q) == q.sz
Queue_capacity(q) == SIZE
Queue_available(q) == SIZE - q.sz

\* Queue_Queue initialising idxBack with 0.
Queue_Queue_BackZero(mem) ==
    [sz |-> 0, idxFront |-> 0, idxBack |-> 0,
     data |-> mem, live |-> {}, order |-> <<>>, balance |-> 0,
     misuse |-> FALSE, trace |-> [on |-> FALSE, events |-> <<>>],
     alive |-> TRUE]

\* Queue::Queue() over storage whose bytes are mem
Queue_Queue(mem) ==
    [sz |-> 0, idxFront |-> 0, idxBack |-> SIZE - 1,
     data |-> mem, live |-> {}, order |-> <<>>, balance |-> 0,
     misuse |-> FALSE, trace |-> [on |-> FALSE, events |-> <<>>],
     alive |-> TRUE]

\* Queue_push without the test for a full queue: the oldest element is
\* overwritten.
Queue_push_Overwrite(q, value) ==
    LET q1 == [q EXCEPT !.idxBack = IncrementIndex(@)]
        q2 == Construct(q1, q1.idxBack, value)
        q3 == IF Queue_full(q2)
              THEN [q2 EXCEPT !.idxFront = IncrementIndex(@)]
              ELSE q2
        q4 == [q3 EXCEPT !.sz = @ + (IF Queue_full(q3) THEN 0 ELSE 1)]
    IN  [obj |-> q4, ret |-> "true"]

\* Queue::push(const value_type&): the new object and the returned value
Queue_push(q, value) ==
    IF Queue_full(q)
    THEN [obj |-> q, ret |-> "false"]
    ELSE LET q1 == [q EXCEPT !.idxBack = IncrementIndex(@)]
             q2 == Construct(q1, q1.idxBack, value)
             q3 == IF Queue_full(q2)
                   THEN [q2 EXCEPT !.idxFront = IncrementIndex(@)]
                   ELSE q2
             q4 == [q3 EXCEPT !.sz = @ + (IF Queue_full(q3) THEN 0 ELSE 1)]
         IN  [obj |-> q4, ret |-> "true"]

\* Queue_emplace counting the new element before it adjusts the front
\* index: the push that fills the queue advances idxFront.
Queue_emplace_CountFirst(q, value) ==
    IF Queue_full(q)
    THEN [obj |-> q, ret |-> "false"]
    ELSE LET q1 == [q EXCEPT !.idxBack = IncrementIndex(@)]
             q2 == Construct(q1, q1.idxBack, value)
             q3 == [q2 EXCEPT !.sz = @ + 1]
             q4 == IF Queue_full(q3)
                   THEN [q3 EXCEPT !.idxFront = IncrementIndex(@)]
                   ELSE q3
         IN  [obj |-> q4, ret |-> "true"]

\* Queue::emplace(Args&&...): value is value_type(args...)
Queue_emplace(q, value) ==
    IF Queue_full(q)
    THEN [obj |-> q, ret |-> "false"]
    ELSE LET q1 == [q EXCEPT !.idxBack = IncrementIndex(@)]
             q2 == Construct(q1, q1.idxBack, value)
             q3 == IF Queue_full(q2)
                   THEN [q2 EXCEPT !.idxFront = IncrementIndex(@)]
                   ELSE q2
             q4 == [q3 EXCEPT !.sz = @ + (IF Queue_full(q3) THEN 0 ELSE 1)]
         IN  [obj |-> q4, ret |-> "true"]

\* Queue::push(value_type&&)
Queue_pushMove(q, value) == Queue_emplace(q, value)

\* Queue_pop that does not advance idxFront.
Queue_pop_NoAdvance(q) ==
    IF ~Queue_empty(q)
    THEN LET q1 == Destruct(q, q.idxFront)
         IN  [q1 EXCEPT !.sz = @ - 1]
    ELSE q

\* Queue_pop without the test for an empty queue.
Queue_pop_Unguarded(q) ==
    LET q1 == Destruct(q, q.idxFront)
        q2 == [q1 EXCEPT !.idxFront = IncrementIndex(@)]
    IN  [q2 EXCEPT !.sz = @ - 1]

\* Queue_pop destroying the element at the back.
Queue_pop_DestroyBack(q) ==
    IF ~Queue_empty(q)
    THEN LET q1 == Destruct(q, q.idxBack)
             q2 == [q1 EXCEPT !.idxFront = IncrementIndex(@)]
         IN  [q2 EXCEPT !.sz = @ - 1]
    ELSE q

\* Queue::pop()
Queue_pop(q) ==
    IF ~Queue_empty(q)
    THEN LET q1 == Destruct(q, q.idxFront)
             q2 == [q1 EXCEPT !.idxFront = IncrementIndex(@)]
         IN  [q2 EXCEPT !.sz = @ - 1]
    ELSE q

\* Queue_popAll with if in place of while: one pop at most.
Queue_popAll_Once(q) ==
    IF ~Queue_empty(q) THEN Queue_pop(q) ELSE q

\* while(!empty()) pop();
RECURSIVE Queue_popAll(_)
Queue_popAll(q) ==
    IF ~Queue_empty(q) THEN Queue_popAll(Queue_pop(q)) ELSE q

\* Queue_dtor without the pop loop (the implicit destructor).
Queue_dtor_NoPop(q) == [q EXCEPT !.alive = FALSE]

\* Queue::~Queue()
Queue_dtor(q) == [Queue_popAll(q) EXCEPT !.alive = FALSE]

\* Queue_swap that exchanges the indices and the size but not the storage.
Queue_swap_NoData(h, this, swapQ) ==
    [h EXCEPT
       ![this]  = [@ EXCEPT !.idxBack = h[swapQ].idxBack,
                            !.idxFront = h[swapQ].idxFront,
                            !.sz = h[swapQ].sz],
       ![swapQ] = [@ EXCEPT !.idxBack = h[this].idxBack,
                            !.idxFront = h[this].idxFront,
                            !.sz = h[this].sz]]

\* Queue::swap(Queue&): h is the pair of objects, this and swapQ name them
Queue_swap(h, this, swapQ) ==
    [h EXCEPT
       ![this]  = [@ EXCEPT !.data = h[swapQ].data, !.live = h[swapQ].live,
                            !.order = h[swapQ].order,
                            !.balance = h[swapQ].balance,
                            !.idxBack = h[swapQ].idxBack,
                            !.idxFront = h[swapQ].idxFront,
                            !.sz = h[swapQ].sz],
       ![swapQ] = [@ EXCEPT !.data = h[this].data, !.live = h[this].live,
                            !.order = h[this].order,
                            !.balance = h[this].balance,
                            !.idxBack = h[this].idxBack,
                            !.idxFront = h[this].idxFront,
                            !.sz = h[this].sz]]

\* the copy loop of Queue::operator=
RECURSIVE Queue_copyLoop(_, _, _, _, _)
Queue_copyLoop(h, this, sourceQ, elemIdx, sourceIdx) ==
    IF elemIdx < h[sourceQ].sz
    THEN Queue_copyLoop(
             [h EXCEPT ![this] =
                 Construct(@, elemIdx, h[sourceQ].data[sourceIdx])],
             this, sourceQ, elemIdx + 1, IncrementIndex(sourceIdx))
    ELSE h

\* Queue_assign setting idxBack to sourceQ.sz instead of sourceQ.sz - 1.
Queue_assign_BackOffByOne(h, this, sourceQ) ==
    LET h1 == [h EXCEPT ![this] = Queue_popAll(@)]
    IN  IF ~Queue_empty(h1[sourceQ])
        THEN LET h2 == Queue_copyLoop(h1, this, sourceQ, 0,
                                      h1[sourceQ].idxFront)
             IN  [h2 EXCEPT ![this] =
                     [@ EXCEPT !.idxFront = 0,
                               !.idxBack = h2[sourceQ].sz,
                               !.sz = h2[sourceQ].sz]]
        ELSE h1

\* Queue_assign without the pop loop.
Queue_assign_NoClear(h, this, sourceQ) ==
    IF ~Queue_empty(h[sourceQ])
    THEN LET h2 == Queue_copyLoop(h, this, sourceQ, 0, h[sourceQ].idxFront)
         IN  [h2 EXCEPT ![this] =
                 [@ EXCEPT !.idxFront = 0,
                           !.idxBack = h2[sourceQ].sz - 1,
                           !.sz = h2[sourceQ].sz]]
    ELSE h

\* Queue_assign without the statement idxFront = 0.
Queue_assign_KeepFront(h, this, sourceQ) ==
    LET h1 == [h EXCEPT ![this] = Queue_popAll(@)]
    IN  IF ~Queue_empty(h1[sourceQ])
        THEN LET h2 == Queue_copyLoop(h1, this, sourceQ, 0,
                                      h1[sourceQ].idxFront)
             IN  [h2 EXCEPT ![this] =
                     [@ EXCEPT !.idxBack = h2[sourceQ].sz - 1,
                               !.sz = h2[sourceQ].sz]]
        ELSE h1

\* Queue_assign taking the source's storage and members instead of copying.
Queue_assign_BySwap(h, this, sourceQ) ==
    Queue_swap([h EXCEPT ![this] = Queue_popAll(@)], this, sourceQ)

\* Queue::operator=(const Queue&): this and sourceQ may name the same object
Queue_assign(h, this, sourceQ) ==
    LET h1 == [h EXCEPT ![this] = Queue_popAll(@)]
    IN  IF ~Queue_empty(h1[sourceQ])
        THEN LET h2 == Queue_copyLoop(h1, this, sourceQ, 0,
                                      h1[sourceQ].idxFront)
             IN  [h2 EXCEPT ![this] =
                     [@ EXCEPT !.idxFront = 0,
                               !.idxBack = h2[sourceQ].sz - 1,
                               !.sz = h2[sourceQ].sz]]
        ELSE h1

\* Queue_copyCtor without the assignment *this = copyQ.
Queue_copyCtor_NoAssign(h, this, copyQ) ==
    [h EXCEPT ![this] = Queue_Queue(@.data)]

\* Queue::Queue(const Queue&), constructed in the storage of this
Queue_copyCtor(h, this, copyQ) ==
    Queue_assign([h EXCEPT ![this] = Queue_Queue(@.data)], this, copyQ)

(* ------------------------------ Stack ---------------------------------- *)
Stack_empty(s) == 0 = s.idxTop
Stack_full(s) == SIZE = s.idxTop
Stack_size(s) == s.idxTop
Stack_capacity(s) == SIZE
Stack_available(s) == SIZE - Stack_size(s)

\* Stack::Stack() over storage whose bytes are mem
Stack_Stack(mem) ==
    [idxTop |-> 0, data |-> mem, live |-> {}, order |-> <<>>, balance |-> 0,
     misuse |-> FALSE, trace |-> [on |-> FALSE, events |-> <<>>],
     alive |-> TRUE]

\* Stack_push rejecting the last free cell: full() tested as SIZE-1 == idxTop.
Stack_push_FullEarly(s, value) ==
    IF SIZE - 1 = s.idxTop
    THEN [obj |-> s, ret |-> "false"]
    ELSE LET s1 == Construct(s, s.idxTop, value)
         IN  [obj |-> [s1 EXCEPT !.idxTop = @ + 1], ret |-> "true"]

\* Stack::push(const value_type&): the new object and the returned value
Stack_push(s, value) ==
    IF Stack_full(s)
    THEN [obj |-> s, ret |-> "false"]
    ELSE LET s1 == Construct(s, s.idxTop, value)
         IN  [obj |-> [s1 EXCEPT !.idxTop = @ + 1], ret |-> "true"]

\* Stack::emplace(Args&&...): value is value_type(args...)
Stack_emplace(s, value) ==
    IF Stack_full(s)
    THEN [obj |-> s, ret |-> "false"]
    ELSE LET s1 == Construct(s, s.idxTop, value)
         IN  [obj |-> [s1 EXCEPT !.idxTop = @ + 1], ret |-> "true"]

\* Stack::push(value_type&&)
Stack_pushMove(s, value) == Stack_emplace(s, value)

\* Stack_pop that destroys the top element but does not decrement idxTop.
Stack_pop_NoDecrement(s) ==
    IF Stack_empty(s)
    THEN s
    ELSE Destruct(s, s.idxTop - 1)

\* Stack::pop()
Stack_pop(s) ==
    IF Stack_empty(s)
    THEN s
    ELSE LET s1 == Destruct(s, s.idxTop - 1)
         IN  [s1 EXCEPT !.idxTop = @ - 1]

\* Stack_popAll with if in place of while: one pop at most.
Stack_popAll_Once(s) ==
    IF ~Stack_empty(s) THEN Stack_pop(s) ELSE s

\* while(!empty()) pop();
RECURSIVE Stack_popAll(_)
Stack_popAll(s) ==
    IF ~Stack_empty(s) THEN Stack_popAll(Stack_pop(s)) ELSE s

\* Stack::~Stack()
Stack_dtor(s) == [Stack_popAll(s) EXCEPT !.alive = FALSE]

\* Stack_swap exchanging idxTop only, without std::swap(data, ...).
Stack_swap_NoData(h, this, swapStack) ==
    [h EXCEPT
       ![this]      = [@ EXCEPT !.idxTop = h[swapStack].idxTop],
       ![swapStack] = [@ EXCEPT !.idxTop = h[this].idxTop]]

\* Stack::swap(Stack&)
Stack_swap(h, this, swapStack) ==
    [h EXCEPT
       ![this]      = [@ EXCEPT !.idxTop = h[swapStack].idxTop,
                                !.data = h[swapStack].data,
                                !.live = h[swapStack].live,
                                !.order = h[swapStack].order,
                                !.balance = h[swapStack].balance],
       ![swapStack] = [@ EXCEPT !.idxTop = h[this].idxTop,
                                !.data = h[this].data,
                                !.live = h[this].live,
                                !.order = h[this].order,
                                !.balance = h[this].balance]]

\* the copy loop of Stack::operator=
RECURSIVE Stack_copyLoop(_, _, _, _)
Stack_copyLoop(h, this, sourceStack, elemIdx) ==
    IF elemIdx < h[sourceStack].idxTop
    THEN Stack_copyLoop(
             [h EXCEPT ![this] =
                 Construct(@, elemIdx, h[sourceStack].data[elemIdx])],
             this, sourceStack, elemIdx + 1)
    ELSE h

\* Stack_assign that does not pop the elements the destination holds.
Stack_assign_NoClear(h, this, sourceStack) ==
    IF ~Stack_empty(h[sourceStack])
    THEN LET h2 == Stack_copyLoop(h, this, sourceStack, 0)
         IN  [h2 EXCEPT ![this] =
                 [@ EXCEPT !.idxTop = h2[sourceStack].idxTop]]
    ELSE h

\* Stack::operator=(const Stack&)
Stack_assign(h, this, sourceStack) ==
    LET h1 == [h EXCEPT ![this] = Stack_popAll(@)]
    IN  IF ~Stack_empty(h1[sourceStack])
        THEN LET h2 == Stack_copyLoop(h1, this, sourceStack, 0)
             IN  [h2 EXCEPT ![this] =
                     [@ EXCEPT !.idxTop = h2[sourceStack].idxTop]]
        ELSE h1

\* Stack::Stack(const Stack&), constructed in the storage of this
Stack_copyCtor(h, this, copyStack) ==
    Stack_assign([h EXCEPT ![this] = Stack_Stack(@.data)], this, copyStack)

(* ----------------------- first-release Queue --------------------------- *)
\* void IncrementIndex(size_type& index)
Queue1_IncrementIndex(index) == (index + 1) % SIZE

Queue1_empty(q) == 0 = q.sz
Queue1_full(q) == SIZE = q.sz
Queue1_size(q) == q.sz

\* Queue::Queue(): value_type data[SIZE] default-constructs every element
Queue1_Queue ==
    [sz |-> 0, idxFront |-> 0, idxBack |-> SIZE - 1,
     data |-> [c \in Cells |-> Default]]

RECURSIVE Queue1_copyLoop(_, _, _)
\* the copy loop of Queue::Queue(const Queue&)
Queue1_copyLoop(this, copyQ, elemIdx) ==
    IF elemIdx < copyQ.sz
    THEN Queue1_copyLoop(
             [this EXCEPT !.data[elemIdx] =
                 copyQ.data[(copyQ.idxFront + elemIdx) % SIZE]],
             copyQ, elemIdx + 1)
    ELSE this

\* Queue::Queue(const Queue& copyQ)
Queue1_copyCtor(copyQ) ==
    IF ~Queue1_empty(copyQ)
    THEN [Queue1_copyLoop(Queue1_Queue, copyQ, 0) EXCEPT
              !.idxFront = 0, !.idxBack = copyQ.sz - 1, !.sz = copyQ.sz]
    ELSE Queue1_Queue

\* Queue1_push returning early when the queue is full.
Queue1_push_Reject(q, value) ==
    IF Queue1_full(q) THEN q
    ELSE LET q1 == [q EXCEPT !.idxBack = Queue1_IncrementIndex(@)]
             q2 == [q1 EXCEPT !.data[q1.idxBack] = value]
         IN  [q2 EXCEPT !.sz = @ + 1]

\* Queue::push(const value_type&)
Queue1_push(q, value) ==
    LET q1 == [q EXCEPT !.idxBack = Queue1_IncrementIndex(@)]
        q2 == [q1 EXCEPT !.data[q1.idxBack] = value]
        q3 == IF Queue1_full(q2)
              THEN [q2 EXCEPT !.idxFront = Queue1_IncrementIndex(@)]
              ELSE q2
    IN  [q3 EXCEPT !.sz = @ + (IF Queue1_full(q3) THEN 0 ELSE 1)]

\* Queue::push(value_type&&): the same statements with std::move(value)
Queue1_pushMove(q, value) ==
    LET q1 == [q EXCEPT !.idxBack = Queue1_IncrementIndex(@)]
        q2 == [q1 EXCEPT !.data[q1.idxBack] = value]
        q3 == IF Queue1_full(q2)
              THEN [q2 EXCEPT !.idxFront = Queue1_IncrementIndex(@)]
              ELSE q2
    IN  [q3 EXCEPT !.sz = @ + (IF Queue1_full(q3) THEN 0 ELSE 1)]

\* Queue::pop(): the popped element stays in its cell
Queue1_pop(q) ==
    IF ~Queue1_empty(q)
    THEN [q EXCEPT !.idxFront = Queue1_IncrementIndex(@), !.sz = @ - 1]
    ELSE q

\* Queue::swap(Queue& swapQ)
Queue1_swap(h, this, swapQ) ==
    IF ~Queue1_empty(h[swapQ])
    THEN [h EXCEPT ![this] = h[swapQ], ![swapQ] = h[this]]
    ELSE h

(* ------------------------------ Array ---------------------------------- *)
(* An Array object is a record: SIZE is its template argument, data its    *)
(* elements data[0 .. SIZE-1], and the ghost flag oob tells that an access *)
(* outside data[0 .. SIZE-1] has been made through the object.             *)

\* Array::Array() = default: every element default-constructed
Array_Array(n) ==
    [SIZE |-> n, data |-> [i \in 0..(n - 1) |-> Default], oob |-> FALSE]

\* The assignment data[index] = value of the array named this
Store(h, this, index, value) ==
    IF index \in 0..(h[this].SIZE - 1)
    THEN [h EXCEPT ![this].data[index] = value]
    ELSE [h EXCEPT ![this].oob = TRUE]

\* The heap after reading element index of the array named this
Load(h, this, index) ==
    IF index \in 0..(h[this].SIZE - 1)
    THEN h
    ELSE [h EXCEPT ![this].oob = TRUE]

\* The value read from element index; past the end any value may be read,
\* Default stands for it.
Value(h, this, index) ==
    IF index \in 0..(h[this].SIZE - 1)
    THEN h[this].data[index]
    ELSE Default

\* The condition asserted by Array::at(position)
Array_atAssert(arr, position) == position >= arr.SIZE

\* The element Array::at(position) returns a reference to: data[position]
Array_at(arr, position) == position

RECURSIVE Array_fillAll(_, _, _, _)
\* for(reference element : *this) element = fillValue;
Array_fillAll(h, this, fillValue, index) ==
    IF index < h[this].SIZE
    THEN Array_fillAll(Store(h, this, index, fillValue),
                       this, fillValue, index + 1)
    ELSE h

\* Array::Array(const U& fillValue), constructed in place of this
Array_fillCtor(h, this, fillValue) ==
    Array_fillAll([h EXCEPT ![this] = Array_Array(@.SIZE)],
                  this, fillValue, 0)

\* Array::Fill(const U& fillValue)
Array_Fill(h, this, fillValue) == Array_fillAll(h, this, fillValue, 0)

RECURSIVE Array_fillLoop(_, _, _, _, _)
\* the loop of Array::Fill(fillValue, startPos, endPos)
Array_fillLoop(h, this, fillValue, index, endPos) ==
    IF (index < h[this].SIZE) /\ (index < endPos)
    THEN Array_fillLoop(Store(h, this, index, fillValue),
                        this, fillValue, index + 1, endPos)
    ELSE h

\* Array_FillRange including endPos: the loop runs while index <= endPos.
Array_FillRange_Inclusive(h, this, fillValue, startPos, endPos) ==
    Array_fillLoop(h, this, fillValue, startPos, endPos + 1)

\* Array::Fill(const U& fillValue, size_type startPos, size_type endPos)
Array_FillRange(h, this, fillValue, startPos, endPos) ==
    Array_fillLoop(h, this, fillValue, startPos, endPos)

RECURSIVE Array_copyLoop(_, _, _, _, _)
\* the loop of the converting constructor and of operator=: index is the
\* position of element in *this, it the position of the source iterator
Array_copyLoop(h, this, copyArr, index, it) ==
    IF index < h[this].SIZE
    THEN LET h1 == Store(Load(h, copyArr, it), this, index,
                         Value(h, copyArr, it))
         IN  IF it + 1 = h1[copyArr].SIZE
             THEN h1
             ELSE Array_copyLoop(h1, this, copyArr, index + 1, it + 1)
    ELSE h

\* Array_copyCtor without the test ++it == copyArr.cend().
Array_copyCtor_NoEndTest(h, this, copyArr) ==
    LET RECURSIVE loop(_, _)
        loop(g, index) ==
            IF index < g[this].SIZE
            THEN loop(Store(Load(g, copyArr, index), this, index,
                            Value(g, copyArr, index)), index + 1)
            ELSE g
    IN  loop([h EXCEPT ![this] = Array_Array(@.SIZE)], 0)

\* Array::Array(const Array<U, uSIZE>& copyArr), constructed in place of
\* this
Array_copyCtor(h, this, copyArr) ==
    Array_copyLoop([h EXCEPT ![this] = Array_Array(@.SIZE)],
                   this, copyArr, 0, 0)

\* Array::operator=(const Array<U, uSIZE>& copyArr)
Array_assign(h, this, copyArr) ==
    IF this = copyArr
    THEN h
    ELSE Array_copyLoop(h, this, copyArr, 0, 0)

RECURSIVE Array_swapLoop(_, _, _, _)
\* the loop of Array::Swap: itLeft and itRight are both at position it
Array_swapLoop(h, this, swapArr, it) ==
    IF it # h[this].SIZE
    THEN LET temp == Value(h, this, it)
             h1 == Store(Load(h, swapArr, it), this, it,
                         Value(h, swapArr, it))
             h2 == Store(h1, swapArr, it, temp)
         IN  Array_swapLoop(h2, this, swapArr, it + 1)
    ELSE h

\* Array_Swap copying swapArr into this without saving temp.
Array_Swap_NoTemp(h, this, swapArr) ==
    IF swapArr = this
    THEN h
    ELSE [h EXCEPT ![this].data = h[swapArr].data]

\* Array::Swap(Array& swapArr)
Array_Swap(h, this, swapArr) ==
    IF swapArr = this
    THEN h
    ELSE Array_swapLoop(h, this, swapArr, 0)

(* --------------------------- the state machine ------------------------- *)
Call(op, this, size, ret) ==
    [op |-> op, this |-> this, size |-> size, ret |-> ret]

Init ==
    /\ SIZE \in 1..MaxSIZE
    /\ unit \in Units
    /\ queue = [o \in Objs |-> Queue_Queue([c \in Cells |-> Dead])]
    /\ stack = [o \in Objs |-> Stack_Stack([c \in Cells |-> Dead])]
    /\ queue1 = [o \in Objs |-> Queue1_Queue]
    /\ array = <<>>
    /\ uSIZE = 1
    /\ stack1 = <<>> /\ stack2 = <<>> /\ build = <<>> /\ array0 = <<>>
    /\ last = Call("ctor", "a", 0, "void")

QPush(o, v) ==
    /\ unit = "Queue" /\ queue[o].alive
    /\ queue' = [queue EXCEPT ![o] = Queue_push(@, v).obj]
    /\ last' = Call("push", o, Queue_size(queue[o]),
                  Queue_push(queue[o], v).ret)
    /\ UNCHANGED <<SIZE, unit, stack, queue1, array, uSIZE,
                   stack1, stack2, build, array0>>

QPushMove(o, v) ==
    /\ unit = "Queue" /\ queue[o].alive
    /\ queue' = [queue EXCEPT ![o] = Queue_pushMove(@, v).obj]
    /\ last' = Call("push", o, Queue_size(queue[o]),
                  Queue_pushMove(queue[o], v).ret)
    /\ UNCHANGED <<SIZE, unit, stack, queue1, array, uSIZE,
                   stack1, stack2, build, array0>>

QEmplace(o, v) ==
    /\ unit = "Queue" /\ queue[o].alive
    /\ queue' = [queue EXCEPT ![o] = Queue_emplace(@, v).obj]
    /\ last' = Call("emplace", o, Queue_size(queue[o]),
                  Queue_emplace(queue[o], v).ret)
    /\ UNCHANGED <<SIZE, unit, stack, queue1, array, uSIZE,
                   stack1, stack2, build, array0>>

QPop(o) ==
    /\ unit = "Queue" /\ queue[o].alive
    /\ queue' = [queue EXCEPT ![o] = Queue_pop(@)]
    /\ last' = Call("pop", o, Queue_size(queue[o]), "void")
    /\ UNCHANGED <<SIZE, unit, stack, queue1, array, uSIZE,
                   stack1, stack2, build, array0>>

QSwap(o, p) ==
    /\ unit = "Queue" /\ queue[o].alive /\ queue[p].alive
    /\ queue' = Queue_swap(queue, o, p)
    /\ last' = Call("swap", o, Queue_size(queue[o]), "void")
    /\ UNCHANGED <<SIZE, unit, stack, queue1, array, uSIZE,
                   stack1, stack2, build, array0>>

QAssign(o, p) ==
    /\ unit = "Queue" /\ queue[o].alive /\ queue[p].alive
    /\ queue' = Queue_assign(queue, o, p)
    /\ last' = Call("assign", o, Queue_size(queue[o]), "void")
    /\ UNCHANGED <<SIZE, unit, stack, queue1, array, uSIZE,
                   stack1, stack2, build, array0>>

QDtor(o) ==
    /\ unit = "Queue" /\ queue[o].alive
    /\ queue' = [queue EXCEPT ![o] = Queue_dtor(@)]
    /\ last' = Call("dtor", o, Queue_size(queue[o]), "void")
    /\ UNCHANGED <<SIZE, unit, stack, queue1, array, uSIZE,
                   stack1, stack2, build, array0>>

QCtor(o) ==
    /\ unit = "Queue" /\ ~queue[o].alive
    /\ queue' = [queue EXCEPT ![o] = Queue_Queue(@.data)]
    /\ last' = Call("ctor", o, 0, "void")
    /\ UNCHANGED <<SIZE, unit, stack, queue1, array, uSIZE,
                   stack1, stack2, build, array0>>

QCopyCtor(o, p) ==
    /\ unit = "Queue" /\ ~queue[o].alive /\ queue[p].alive
    /\ queue' = Queue_copyCtor(queue, o, p)
    /\ last' = Call("copyCtor", o, 0, "void")
    /\ UNCHANGED <<SIZE, unit, stack, queue1, array, uSIZE,
                   stack1, stack2, build, array0>>

SPush(o, v) ==
    /\ unit = "Stack" /\ stack[o].alive
    /\ stack' = [stack EXCEPT ![o] = Stack_push(@, v).obj]
    /\ last' = Call("push", o, Stack_size(stack[o]),
                  Stack_push(stack[o], v).ret)
    /\ UNCHANGED <<SIZE, unit, queue, queue1, array, uSIZE,
                   stack1, stack2, build, array0>>

SPushMove(o, v) ==
    /\ unit = "Stack" /\ stack[o].alive
    /\ stack' = [stack EXCEPT ![o] = Stack_pushMove(@, v).obj]
    /\ last' = Call("push", o, Stack_size(stack[o]),
                  Stack_pushMove(stack[o], v).ret)
    /\ UNCHANGED <<SIZE, unit, queue, queue1, array, uSIZE,
                   stack1, stack2, build, array0>>

SEmplace(o, v) ==
    /\ unit = "Stack" /\ stack[o].alive
    /\ stack' = [stack EXCEPT ![o] = Stack_emplace(@, v).obj]
    /\ last' = Call("emplace", o, Stack_size(stack[o]),
                  Stack_emplace(stack[o], v).ret)
    /\ UNCHANGED <<SIZE, unit, queue, queue1, array, uSIZE,
                   stack1, stack2, build, array0>>

SPop(o) ==
    /\ unit = "Stack" /\ stack[o].alive
    /\ stack' = [stack EXCEPT ![o] = Stack_pop(@)]
    /\ last' = Call("pop", o, Stack_size(stack[o]), "void")
    /\ UNCHANGED <<SIZE, unit, queue, queue1, array, uSIZE,
                   stack1, stack2, build, array0>>

SSwap(o, p) ==
    /\ unit = "Stack" /\ stack[o].alive /\ stack[p].alive
    /\ stack' = Stack_swap(stack, o, p)
    /\ last' = Call("swap", o, Stack_size(stack[o]), "void")
    /\ UNCHANGED <<SIZE, unit, queue, queue1, array, uSIZE,
                   stack1, stack2, build, array0>>

SAssign(o, p) ==
    /\ unit = "Stack" /\ stack[o].alive /\ stack[p].alive
    /\ stack' = Stack_assign(stack, o, p)
    /\ last' = Call("assign", o, Stack_size(stack[o]), "void")
    /\ UNCHANGED <<SIZE, unit, queue, queue1, array, uSIZE,
                   stack1, stack2, build, array0>>

SDtor(o) ==
    /\ unit = "Stack" /\ stack[o].alive
    /\ stack' = [stack EXCEPT ![o] = Stack_dtor(@)]
    /\ last' = Call("dtor", o, Stack_size(stack[o]), "void")
    /\ UNCHANGED <<SIZE, unit, queue, queue1, array, uSIZE,
                   stack1, stack2, build, array0>>

SCtor(o) ==
    /\ unit = "Stack" /\ ~stack[o].alive
    /\ stack' = [stack EXCEPT ![o] = Stack_Stack(@.data)]
    /\ last' = Call("ctor", o, 0, "void")
    /\ UNCHANGED <<SIZE, unit, queue, queue1, array, uSIZE,
                   stack1, stack2, build, array0>>

SCopyCtor(o, p) ==
    /\ unit = "Stack" /\ ~stack[o].alive /\ stack[p].alive
    /\ stack' = Stack_copyCtor(stack, o, p)
    /\ last' = Call("copyCtor", o, 0, "void")
    /\ UNCHANGED <<SIZE, unit, queue, queue1, array, uSIZE,
                   stack1, stack2, build, array0>>

NextQueue ==
    \/ \E o \in Objs, v \in Values : QPush(o, v)
    \/ \E o \in Objs, v \in Values : QPushMove(o, v)
    \/ \E o \in Objs, v \in Values : QEmplace(o, v)
    \/ \E o \in Objs : QPop(o)
    \/ \E o \in Objs, p \in Objs : QSwap(o, p)
    \/ \E o \in Objs, p \in Objs : QAssign(o, p)
    \/ \E o \in Objs : QDtor(o)
    \/ \E o \in Objs : QCtor(o)
    \/ \E o \in Objs, p \in Objs : QCopyCtor(o, p)

NextStack ==
    \/ \E o \in Objs, v \in Values : SPush(o, v)
    \/ \E o \in Objs, v \in Values : SPushMove(o, v)
    \/ \E o \in Objs, v \in Values : SEmplace(o, v)
    \/ \E o \in Objs : SPop(o)
    \/ \E o \in Objs, p \in Objs : SSwap(o, p)
    \/ \E o \in Objs, p \in Objs : SAssign(o, p)
    \/ \E o \in Objs : SDtor(o)
    \/ \E o \in Objs : SCtor(o)
    \/ \E o \in Objs, p \in Objs : SCopyCtor(o, p)

Next == NextQueue \/ NextStack

\* Objects of either class: the claims made of both classes.
Spec == Init /\ [][Next]_vars

\* The objects of the latest Queue alone.
InitQueue == Init /\ unit = "Queue"
SpecQueue == InitQueue /\ [][NextQueue]_vars

\* The objects of the latest Stack alone.
InitStack == Init /\ unit = "Stack"
SpecStack == InitStack /\ [][NextStack]_vars

(* ------------------ the first-release Queue's machine ------------------ *)
InitQueue1 ==
    /\ SIZE \in 1..MaxSIZE
    /\ unit = "Queue1"
    /\ queue = [o \in Objs |-> Queue_Queue([c \in Cells |-> Dead])]
    /\ stack = [o \in Objs |-> Stack_Stack([c \in Cells |-> Dead])]
    /\ queue1 = [o \in Objs |-> Queue1_Queue]
    /\ array = <<>>
    /\ uSIZE = 1
    /\ stack1 = <<>> /\ stack2 = <<>> /\ build = <<>> /\ array0 = <<>>
    /\ last = Call("ctor", "a", 0, "void")

Q1Push(o, v) ==
    /\ queue1' = [queue1 EXCEPT ![o] = Queue1_push(@, v)]
    /\ last' = Call("push", o, Queue1_size(queue1[o]), "void")
    /\ UNCHANGED <<SIZE, unit, queue, stack, array, uSIZE,
                   stack1, stack2, build, array0>>

Q1PushMove(o, v) ==
    /\ queue1' = [queue1 EXCEPT ![o] = Queue1_pushMove(@, v)]
    /\ last' = Call("push", o, Queue1_size(queue1[o]), "void")
    /\ UNCHANGED <<SIZE, unit, queue, stack, array, uSIZE,
                   stack1, stack2, build, array0>>

Q1Pop(o) ==
    /\ queue1' = [queue1 EXCEPT ![o] = Queue1_pop(@)]
    /\ last' = Call("pop", o, Queue1_size(queue1[o]), "void")
    /\ UNCHANGED <<SIZE, unit, queue, stack, array, uSIZE,
                   stack1, stack2, build, array0>>

Q1Swap(o, p) ==
    /\ queue1' = Queue1_swap(queue1, o, p)
    /\ last' = Call("swap", o, Queue1_size(queue1[o]), "void")
    /\ UNCHANGED <<SIZE, unit, queue, stack, array, uSIZE,
                   stack1, stack2, build, array0>>

\* The object o ends and a queue is default-constructed in its place.
Q1Ctor(o) ==
    /\ queue1' = [queue1 EXCEPT ![o] = Queue1_Queue]
    /\ last' = Call("ctor", o, 0, "void")
    /\ UNCHANGED <<SIZE, unit, queue, stack, array, uSIZE,
                   stack1, stack2, build, array0>>

\* The object o ends and a copy of p is constructed in its place.
Q1CopyCtor(o, p) ==
    /\ o # p
    /\ queue1' = [queue1 EXCEPT ![o] = Queue1_copyCtor(queue1[p])]
    /\ last' = Call("copyCtor", o, 0, "void")
    /\ UNCHANGED <<SIZE, unit, queue, stack, array, uSIZE,
                   stack1, stack2, build, array0>>

NextQueue1 ==
    \/ \E o \in Objs, v \in Values : Q1Push(o, v)
    \/ \E o \in Objs, v \in Values : Q1PushMove(o, v)
    \/ \E o \in Objs : Q1Pop(o)
    \/ \E o \in Objs, p \in Objs : Q1Swap(o, p)
    \/ \E o \in Objs : Q1Ctor(o)
    \/ \E o \in Objs, p \in Objs : Q1CopyCtor(o, p)

SpecQueue1 == InitQueue1 /\ [][NextQueue1]_vars

(* --------------------------- the Array's machine ----------------------- *)
\* Positions passed to at() and Fill(): in range, SIZE and past SIZE.
Positions == 0..(MaxSIZE + 1)

\* The object a is an Array<T, SIZE>, the object b an Array<U, uSIZE>;
\* they are of one class when uSIZE = SIZE.
SizeOf(o) == IF o = "a" THEN SIZE ELSE uSIZE

InitArray ==
    /\ SIZE \in 1..MaxSIZE
    /\ uSIZE \in 1..MaxSIZE
    /\ stack1 = <<>> /\ stack2 = <<>> /\ build = <<>> /\ array0 = <<>>
    /\ unit = "Array"
    /\ queue = [o \in Objs |-> Queue_Queue([c \in Cells |-> Dead])]
    /\ stack = [o \in Objs |-> Stack_Stack([c \in Cells |-> Dead])]
    /\ queue1 = [o \in Objs |-> Queue1_Queue]
    /\ array = [o \in Objs |-> Array_Array(SizeOf(o))]
    /\ last = Call("ctor", "a", 0, "void")

ACtor(o) ==
    /\ array' = [array EXCEPT ![o] = Array_Array(@.SIZE)]
    /\ last' = Call("ctor", o, 0, "void")
    /\ UNCHANGED <<SIZE, unit, queue, stack, queue1, uSIZE,
                   stack1, stack2, build, array0>>

AFillCtor(o, v) ==
    /\ array' = Array_fillCtor(array, o, v)
    /\ last' = Call("fillCtor", o, 0, "void")
    /\ UNCHANGED <<SIZE, unit, queue, stack, queue1, uSIZE,
                   stack1, stack2, build, array0>>

ACopyCtor(o, p) ==
    /\ o # p
    /\ array' = Array_copyCtor(array, o, p)
    /\ last' = Call("copyCtor", o, 0, "void")
    /\ UNCHANGED <<SIZE, unit, queue, stack, queue1, uSIZE,
                   stack1, stack2, build, array0>>

AAssign(o, p) ==
    /\ array' = Array_assign(array, o, p)
    /\ last' = Call("assign", o, 0, "void")
    /\ UNCHANGED <<SIZE, unit, queue, stack, queue1, uSIZE,
                   stack1, stack2, build, array0>>

ASwap(o, p) ==
    /\ array[o].SIZE = array[p].SIZE
    /\ array' = Array_Swap(array, o, p)
    /\ last' = Call("Swap", o, 0, "void")
    /\ UNCHANGED <<SIZE, unit, queue, stack, queue1, uSIZE,
                   stack1, stack2, build, array0>>

AFill(o, v) ==
    /\ array' = Array_Fill(array, o, v)
    /\ last' = Call("Fill", o, 0, "void")
    /\ UNCHANGED <<SIZE, unit, queue, stack, queue1, uSIZE,
                   stack1, stack2, build, array0>>

AFillRange(o, v, startPos, endPos) ==
    /\ array' = Array_FillRange(array, o, v, startPos, endPos)
    /\ last' = Call("FillRange", o, 0, "void")
    /\ UNCHANGED <<SIZE, unit, queue, stack, queue1, uSIZE,
                   stack1, stack2, build, array0>>

NextArray ==
    \/ \E o \in Objs : ACtor(o)
    \/ \E o \in Objs, v \in Values : AFillCtor(o, v)
    \/ \E o \in Objs, p \in Objs : ACopyCtor(o, p)
    \/ \E o \in Objs, p \in Objs : AAssign(o, p)
    \/ \E o \in Objs, p \in Objs : ASwap(o, p)
    \/ \E o \in Objs, v \in Values : AFill(o, v)
    \/ \E o \in Objs, v \in Values, startPos \in Positions,
          endPos \in Positions : AFillRange(o, v, startPos, endPos)

SpecArray == InitArray /\ [][NextArray]_vars

(* ------------------------- element access ------------------------------ *)
\* Queue::front()
Queue_front(q) == q.data[q.idxFront]

\* Queue::back()
Queue_back(q) == q.data[q.idxBack]

\* Stack::top()
Stack_top(s) == IF Stack_empty(s) THEN s.data[0] ELSE s.data[s.idxTop - 1]

\* The cell the reference returned by Queue::front() refers to: at(idxFront)
Queue_frontRef(q) == q.idxFront

\* Queue_backRef with the body of front(): at(idxFront).
Queue_backRef_AtFront(q) == q.idxFront

\* The cell the reference returned by Queue::back() refers to: at(idxBack)
Queue_backRef(q) == q.idxBack

\* The cell the reference returned by Stack::top() refers to: at(0) when
\* the stack is empty, else at(idxTop-1)
Stack_topRef(s) == IF Stack_empty(s) THEN 0 ELSE s.idxTop - 1

(* --------------------- vocabulary of the properties -------------------- *)
\* The elements of a queue from the front to the back.
QueueElems(q) ==
    [i \in 1..q.sz |-> q.data[(q.idxFront + i - 1) % SIZE]]

\* The circular range of cells [idxFront, idxFront + sz - 1] mod SIZE.
QueueRange(q) ==
    {(q.idxFront + i) % SIZE : i \in 0..(q.sz - 1)}

\* The elements of a stack from the bottom to the top.
StackElems(s) ==
    [i \in 1..s.idxTop |-> s.data[i - 1]]

\* s without its last element.
Front(s) == SubSeq(s, 1, Len(s) - 1)

\* The names of the insertions: push (both overloads) and emplace.
Insertions == {"push", "emplace"}

\* What the three insertions of value v make of queue q.
QueueInsertions(q, v) ==
    {Queue_push(q, v), Queue_pushMove(q, v), Queue_emplace(q, v)}

\* What the three insertions of value v make of stack s.
StackInsertions(s, v) ==
    {Stack_push(s, v), Stack_pushMove(s, v), Stack_emplace(s, v)}

(* ------------------------------ C1 ------------------------------------- *)
\* C1: from every reachable state of a latest Queue with size() = SIZE,
\* push(const T&), push(T&&) and emplace return false and leave sz,
\* idxFront, idxBack and every storage cell as they were, so the queue still
\* holds the same elements in the same order.
C1_RejectWhenFull ==
    \A o \in Objs, v \in Values :
        (queue[o].alive /\ Queue_size(queue[o]) = SIZE) =>
            \A r \in QueueInsertions(queue[o], v) :
                /\ r.ret = "false"
                /\ r.obj.sz = queue[o].sz
                /\ r.obj.idxFront = queue[o].idxFront
                /\ r.obj.idxBack = queue[o].idxBack
                /\ r.obj.data = queue[o].data
                /\ r.obj.live = queue[o].live
                /\ QueueElems(r.obj) = QueueElems(queue[o])

\* A push has just been rejected by a full queue.
C1_Witness ==
    /\ unit = "Queue"
    /\ last.op \in Insertions
    /\ last.size = SIZE
    /\ last.ret = "false"
    /\ Queue_full(queue[last.this])

(* ------------------------------ C2 ------------------------------------- *)
\* C2: from every reachable state of a latest Queue with size() < SIZE,
\* push and emplace return true, grow size() by one, move idxBack to
\* (idxBack + 1) mod SIZE, construct the value in that cell, where back()
\* then finds it, and leave idxFront and every element that was live
\* unchanged.
C2_PushSucceeds ==
    \A o \in Objs, v \in Values :
        (queue[o].alive /\ Queue_size(queue[o]) < SIZE) =>
            \A r \in QueueInsertions(queue[o], v) :
                /\ r.ret = "true"
                /\ Queue_size(r.obj) = Queue_size(queue[o]) + 1
                /\ r.obj.idxBack = (queue[o].idxBack + 1) % SIZE
                /\ r.obj.live = queue[o].live \cup {r.obj.idxBack}
                /\ r.obj.idxBack \notin queue[o].live
                /\ r.obj.data[r.obj.idxBack] = v
                /\ Queue_back(r.obj) = v
                /\ r.obj.idxFront = queue[o].idxFront
                /\ \A c \in queue[o].live : r.obj.data[c] = queue[o].data[c]

\* A push has just succeeded by wrapping idxBack to cell 0 behind older
\* elements.
C2_Witness ==
    /\ unit = "Queue"
    /\ last.op \in Insertions
    /\ last.size < SIZE
    /\ last.ret = "true"
    /\ queue[last.this].idxBack = 0
    /\ queue[last.this].sz >= 2

(* ------------------------------ C3 ------------------------------------- *)
\* C3: the latest Queue refines a FIFO sequence: a constructed queue is
\* empty and, from every reachable state, wrapped ones included, an
\* insertion appends its value to the elements read from idxFront
\* circularly unless SIZE of them are held, a pop removes their head unless
\* there is none, and front() is their head.
C3_FifoRefinement ==
    \A o \in Objs :
        /\ QueueElems(Queue_Queue(queue[o].data)) = <<>>
        /\ queue[o].alive =>
            /\ \A v \in Values : \A r \in QueueInsertions(queue[o], v) :
                   QueueElems(r.obj) =
                       IF Len(QueueElems(queue[o])) < SIZE
                       THEN Append(QueueElems(queue[o]), v)
                       ELSE QueueElems(queue[o])
            /\ QueueElems(Queue_pop(queue[o])) =
                   IF QueueElems(queue[o]) = <<>>
                   THEN <<>>
                   ELSE Tail(QueueElems(queue[o]))
            /\ QueueElems(queue[o]) # <<>> =>
                   Queue_front(queue[o]) = Head(QueueElems(queue[o]))
            /\ \A i \in 1..Len(QueueElems(queue[o])) :
                   QueueElems(queue[o])[i] \in Values

\* A pop has just moved idxFront from cell SIZE-1 to cell 0, where an
\* element pushed after the wrap is now the head.
C3_Witness ==
    /\ unit = "Queue"
    /\ last.op = "pop"
    /\ last.size >= 2
    /\ queue[last.this].sz >= 1
    /\ queue[last.this].idxFront = 0

(* ------------------------------ C4 ------------------------------------- *)
\* C4: from every reachable state of a latest Stack with size() = SIZE,
\* push(const T&), push(T&&) and emplace return false and leave idxTop and
\* every storage cell unchanged; with size() < SIZE they return true,
\* construct the value in cell idxTop, increment idxTop by one and leave the
\* cells below unchanged.
C4_StackPush ==
    \A o \in Objs, v \in Values :
        stack[o].alive =>
            \A r \in StackInsertions(stack[o], v) :
                IF Stack_size(stack[o]) = SIZE
                THEN /\ r.ret = "false"
                     /\ r.obj.idxTop = stack[o].idxTop
                     /\ r.obj.data = stack[o].data
                     /\ r.obj.live = stack[o].live
                ELSE /\ Stack_size(stack[o]) < SIZE
                     /\ r.ret = "true"
                     /\ r.obj.data[stack[o].idxTop] = v
                     /\ stack[o].idxTop \notin stack[o].live
                     /\ r.obj.live = stack[o].live \cup {stack[o].idxTop}
                     /\ r.obj.idxTop = stack[o].idxTop + 1
                     /\ \A c \in 0..(stack[o].idxTop - 1) :
                            r.obj.data[c] = stack[o].data[c]

\* A push has just been rejected by a full stack.
C4_Witness ==
    /\ unit = "Stack"
    /\ last.op \in Insertions
    /\ last.size = SIZE
    /\ last.ret = "false"
    /\ Stack_full(stack[last.this])

(* ------------------------------ C5 ------------------------------------- *)
\* C5: the latest Stack refines a LIFO sequence: a constructed stack is
\* empty and, from every reachable state, an insertion appends its value to
\* cells [0, idxTop-1] unless SIZE of them are held, a pop removes the last
\* of them unless there is none, and top() is the last of them.
C5_LifoRefinement ==
    \A o \in Objs :
        /\ StackElems(Stack_Stack(stack[o].data)) = <<>>
        /\ stack[o].alive =>
            /\ \A v \in Values : \A r \in StackInsertions(stack[o], v) :
                   StackElems(r.obj) =
                       IF Len(StackElems(stack[o])) < SIZE
                       THEN Append(StackElems(stack[o]), v)
                       ELSE StackElems(stack[o])
            /\ StackElems(Stack_pop(stack[o])) =
                   IF StackElems(stack[o]) = <<>>
                   THEN <<>>
                   ELSE Front(StackElems(stack[o]))
            /\ StackElems(stack[o]) # <<>> =>
                   Stack_top(stack[o]) =
                       StackElems(stack[o])[Len(StackElems(stack[o]))]
            /\ \A i \in 1..Len(StackElems(stack[o])) :
                   StackElems(stack[o])[i] \in Values

\* A pop has just uncovered an older element of a stack.
C5_Witness ==
    /\ unit = "Stack"
    /\ last.op = "pop"
    /\ last.size >= 2
    /\ stack[last.this].idxTop >= 1

C7_PopNonEmpty ==
    \A o \in Objs :
        (queue[o].alive /\ Queue_size(queue[o]) > 0) =>
            LET r == Queue_pop(queue[o])
            IN  /\ queue[o].idxFront \in queue[o].live
                /\ r.live = queue[o].live \ {queue[o].idxFront}
                /\ r.idxFront = (queue[o].idxFront + 1) % SIZE
                /\ Queue_size(r) = Queue_size(queue[o]) - 1
                /\ r.idxBack = queue[o].idxBack
                /\ \A c \in r.live : r.data[c] = queue[o].data[c]
                /\ Queue_size(queue[o]) >= 2 =>
                       Queue_front(r) = QueueElems(queue[o])[2]

\* A pop has just taken the oldest element from a full queue of two or
\* more elements.
C7_Witness ==
    /\ unit = "Queue"
    /\ last.op = "pop"
    /\ last.size = SIZE
    /\ SIZE >= 2
    /\ queue[last.this].sz = SIZE - 1

(* ------------------------------ C8 ------------------------------------- *)
\* C8: in every reachable state of the latest Queue, for every capacity,
\* 0 <= sz <= SIZE, 0 <= idxFront <= SIZE-1 and 0 <= idxBack <= SIZE-1.
C8_QueueBounds ==
    \A o \in Objs :
        /\ queue[o].sz \in 0..SIZE
        /\ queue[o].idxFront \in 0..(SIZE - 1)
        /\ queue[o].idxBack \in 0..(SIZE - 1)

\* A queue of capacity 1 has just been copy-assigned a full queue.
C8_Witness ==
    /\ unit = "Queue"
    /\ SIZE = 1
    /\ last.op = "assign"
    /\ Queue_full(queue[last.this])

(* ------------------------------ C9 ------------------------------------- *)
\* C9: in every reachable state of the latest Queue the cells holding a
\* constructed, not yet destroyed element are exactly the cells
\* (idxFront + i) mod SIZE for 0 <= i < sz; every other cell is dead.
C9_QueueLiveRange ==
    \A o \in Objs :
        /\ queue[o].live = QueueRange(queue[o])
        /\ \A c \in Cells :
               IF c \in QueueRange(queue[o])
               THEN queue[o].data[c] \in Values
               ELSE queue[o].data[c] = Dead

\* A swap has just given a queue a live range that wraps past cell SIZE-1.
C9_Witness ==
    /\ unit = "Queue"
    /\ last.op = "swap"
    /\ queue[last.this].sz >= 2
    /\ queue[last.this].idxFront + queue[last.this].sz > SIZE

(* ------------------------------ C10 ------------------------------------ *)
\* C10: in every reachable state of the latest Stack 0 <= idxTop <= SIZE,
\* the live cells are exactly [0, idxTop-1] and idxTop is their number.
C10_StackInvariant ==
    \A o \in Objs :
        /\ stack[o].idxTop \in 0..SIZE
        /\ stack[o].live = 0..(stack[o].idxTop - 1)
        /\ Cardinality(stack[o].live) = stack[o].idxTop
        /\ \A c \in Cells :
               IF c < stack[o].idxTop
               THEN stack[o].data[c] \in Values
               ELSE stack[o].data[c] = Dead

\* A stack holding elements has just been copy-assigned fewer elements.
C10_Witness ==
    /\ unit = "Stack"
    /\ last.op = "assign"
    /\ stack[last.this].idxTop >= 1
    /\ last.size > stack[last.this].idxTop

(* ------------------------------ C11 ------------------------------------ *)
\* C11: in every reachable state of the latest Queue and the latest Stack,
\* the references returned by front(), back() and top() refer to a live
\* cell (the calls report no error and return no sentinel, so a reference
\* is all they yield).
C11_AccessRefersToLiveCell ==
    \A o \in Objs :
        /\ queue[o].alive =>
               /\ Queue_frontRef(queue[o]) \in queue[o].live
               /\ Queue_backRef(queue[o]) \in queue[o].live
               /\ Queue_front(queue[o]) \in Values
               /\ Queue_back(queue[o]) \in Values
        /\ stack[o].alive =>
               /\ Stack_topRef(stack[o]) \in stack[o].live
               /\ Stack_top(stack[o]) \in Values

(* ------------------------------ C12 ------------------------------------ *)
\* C12: from every reachable non-empty state of the latest Queue and the
\* latest Stack, one element included, after pop() the cell that held the
\* removed element is not the cell front(), back() or top() refers to.
C12_PoppedCellUnreferenced ==
    \A o \in Objs :
        /\ (queue[o].alive /\ Queue_size(queue[o]) > 0) =>
               LET r == Queue_pop(queue[o])
               IN  /\ Queue_frontRef(r) # queue[o].idxFront
                   /\ Queue_backRef(r) # queue[o].idxFront
        /\ (stack[o].alive /\ Stack_size(stack[o]) > 0) =>
               Stack_topRef(Stack_pop(stack[o])) # stack[o].idxTop - 1

(* ------------------------------ C13 ------------------------------------ *)
\* C13: in every reachable state of the latest Queue and the latest Stack
\* the status checkers agree with the bookkeeping: size() is the number of
\* live elements, empty() is true iff size() = 0, full() is true iff
\* size() = capacity() = SIZE, available() = SIZE - size(), and empty() and
\* full() are never both true.
C13_StatusCheckers ==
    \A o \in Objs :
        /\ queue[o].alive =>
               /\ Queue_size(queue[o]) = Cardinality(queue[o].live)
               /\ Queue_empty(queue[o]) <=> Queue_size(queue[o]) = 0
               /\ Queue_capacity(queue[o]) = SIZE
               /\ Queue_full(queue[o]) <=>
                      Queue_size(queue[o]) = Queue_capacity(queue[o])
               /\ Queue_available(queue[o]) = SIZE - Queue_size(queue[o])
               /\ Queue_available(queue[o]) \in 0..SIZE
               /\ ~(Queue_empty(queue[o]) /\ Queue_full(queue[o]))
        /\ stack[o].alive =>
               /\ Stack_size(stack[o]) = Cardinality(stack[o].live)
               /\ Stack_empty(stack[o]) <=> Stack_size(stack[o]) = 0
               /\ Stack_capacity(stack[o]) = SIZE
               /\ Stack_full(stack[o]) <=>
                      Stack_size(stack[o]) = Stack_capacity(stack[o])
               /\ Stack_available(stack[o]) = SIZE - Stack_size(stack[o])
               /\ Stack_available(stack[o]) \in 0..SIZE
               /\ ~(Stack_empty(stack[o]) /\ Stack_full(stack[o]))

\* An emplace has just filled a stack: full() holds, available() is 0.
C13_Witness ==
    /\ unit = "Stack"
    /\ last.op = "emplace"
    /\ last.ret = "true"
    /\ Stack_full(stack[last.this])
    /\ Stack_available(stack[last.this]) = 0
    /\ ~Stack_empty(stack[last.this])

(* ------------------------- operator== --------------------------------- *)
RECURSIVE Queue_eqLoop(_, _, _, _, _)
\* The element-wise comparison loop of Queue::operator==
Queue_eqLoop(this, compQ, elemIdx, index0, index1) ==
    IF elemIdx >= Queue_size(compQ)
    THEN TRUE
    ELSE IF compQ.data[index1] # this.data[index0]
         THEN FALSE
         ELSE Queue_eqLoop(this, compQ, elemIdx + 1,
                           IncrementIndex(index0), IncrementIndex(index1))

\* Queue_eq walking both queues from this->idxFront.
Queue_eq_OneIndex(this, compQ) ==
    IF Queue_size(compQ) # this.sz
    THEN FALSE
    ELSE Queue_eqLoop(this, compQ, 0, this.idxFront, this.idxFront)

\* Queue::operator==(const Queue& compQ) const
Queue_eq(this, compQ) ==
    IF Queue_size(compQ) # this.sz
    THEN FALSE
    ELSE Queue_eqLoop(this, compQ, 0, this.idxFront, compQ.idxFront)

RECURSIVE Stack_eqLoop(_, _, _)
\* The element-wise comparison loop of Stack::operator==
Stack_eqLoop(this, compStack, elemIdx) ==
    IF elemIdx >= this.idxTop
    THEN TRUE
    ELSE IF compStack.data[elemIdx] # this.data[elemIdx]
         THEN FALSE
         ELSE Stack_eqLoop(this, compStack, elemIdx + 1)

\* Stack_eq without the comparison of the sizes.
Stack_eq_NoSizeCheck(this, compStack) ==
    Stack_eqLoop(this, compStack, 0)

\* Stack::operator==(const Stack& compStack) const
Stack_eq(this, compStack) ==
    IF Stack_size(compStack) # Stack_size(this)
    THEN FALSE
    ELSE Stack_eqLoop(this, compStack, 0)

\* Queue::operator!=(const Queue& compQ) const: !(compQ == *this)
Queue_ne(this, compQ) == ~Queue_eq(compQ, this)

\* Stack::operator!=(const Stack& compStack) const: !(*this == compStack)
Stack_ne(this, compStack) == ~Stack_eq(this, compStack)

\* The object obj with every dead cell of its storage holding the bytes v.
Scribble(obj, v) ==
    [obj EXCEPT !.data = [c \in Cells |->
                             IF c \in obj.live THEN obj.data[c] ELSE v]]

\* What a dead cell's bytes may read as.
Bytes == Values \cup {Dead}

(* ------------------------------ C14 ------------------------------------ *)
\* C14: in every reachable non-empty state of the latest Queue, front()
\* refers to the live element constructed earliest and back() to the live
\* element constructed latest, the elements in between following in cell
\* order from idxFront; with one element both refer to the same cell.
C14_FrontOldestBackNewest ==
    \A o \in Objs :
        (queue[o].alive /\ Queue_size(queue[o]) > 0) =>
            /\ Len(queue[o].order) = Queue_size(queue[o])
            /\ Queue_frontRef(queue[o]) = Head(queue[o].order)
            /\ Queue_backRef(queue[o]) = queue[o].order[Len(queue[o].order)]
            /\ \A i \in 1..Len(queue[o].order) :
                   queue[o].order[i] = (queue[o].idxFront + i - 1) % SIZE
            /\ Queue_front(queue[o]) = queue[o].data[Head(queue[o].order)]
            /\ Queue_size(queue[o]) = 1 =>
                   Queue_frontRef(queue[o]) = Queue_backRef(queue[o])

\* A swap has just given a queue elements that wrap past cell SIZE-1, the
\* oldest and the newest holding different values.
C14_Witness ==
    /\ unit = "Queue"
    /\ last.op = "swap"
    /\ queue[last.this].sz >= 2
    /\ queue[last.this].idxBack < queue[last.this].idxFront
    /\ Queue_front(queue[last.this]) # Queue_back(queue[last.this])

(* ------------------------------ C15 ------------------------------------ *)
\* C15: for every pair of queues a and b, a == b is true iff their sizes
\* are equal and their i-th elements from the front are equal for every i,
\* whatever the two idxFront offsets are and whatever the dead cells of
\* the left queue hold while those of the right one hold other bytes.
C15_EqualityIsElementwise ==
    \A a, b \in Objs :
        (queue[a].alive /\ queue[b].alive) =>
            \A v \in Bytes :
                Queue_eq(Scribble(queue[a], v), queue[b])
                    <=> /\ Queue_size(queue[a]) = Queue_size(queue[b])
                        /\ \A i \in 1..Queue_size(queue[a]) :
                               QueueElems(queue[a])[i] = QueueElems(queue[b])[i]

\* Two queues that compare equal although one starts at cell 0 and the
\* other is wrapped, their dead-cell-free storages differing cell by cell.
C15_Witness ==
    /\ unit = "Queue"
    /\ queue["a"].alive /\ queue["b"].alive
    /\ queue["a"].sz >= 2
    /\ queue["a"].idxFront = 0
    /\ queue["b"].idxFront # 0
    /\ queue["b"].idxBack < queue["b"].idxFront
    /\ queue["a"].data # queue["b"].data
    /\ Queue_eq(queue["a"], queue["b"])

(* ------------------------------ C16 ------------------------------------ *)
\* The heap h after the copy from src into dst leaves dst equal (==) to
\* src, holding the elements src held before in the same order, and src
\* as it was.
QueueCopied(h, dst, src) ==
    /\ Queue_eq(h[dst], h[src])
    /\ Queue_eq(h[src], h[dst])
    /\ QueueElems(h[dst]) = QueueElems(queue[src])
    /\ h[dst].live = QueueRange(h[dst])
    /\ h[src] = queue[src]

StackCopied(h, dst, src) ==
    /\ Stack_eq(h[dst], h[src])
    /\ Stack_eq(h[src], h[dst])
    /\ StackElems(h[dst]) = StackElems(stack[src])
    /\ h[dst].live = 0..(h[dst].idxTop - 1)
    /\ h[src] = stack[src]

\* C16: for every source (empty, full, wrapped) and every state of another
\* object as destination, after copy assignment (destination constructed)
\* or copy construction (destination storage not holding an object) the
\* destination compares equal to the source, holds the source's elements
\* in the same order, and the source is unchanged.
C16_CopyRoundTrip ==
    \A dst, src \in Objs :
        /\ (dst # src /\ queue[src].alive) =>
               IF queue[dst].alive
               THEN QueueCopied(Queue_assign(queue, dst, src), dst, src)
               ELSE QueueCopied(Queue_copyCtor(queue, dst, src), dst, src)
        /\ (dst # src /\ stack[src].alive) =>
               IF stack[dst].alive
               THEN StackCopied(Stack_assign(stack, dst, src), dst, src)
               ELSE StackCopied(Stack_copyCtor(stack, dst, src), dst, src)

\* A queue has just been copy-constructed from a wrapped source holding at
\* least two elements.
C16_Witness ==
    /\ unit = "Queue"
    /\ last.op = "copyCtor"
    /\ \E src \in Objs \ {last.this} :
           /\ queue[src].alive
           /\ queue[src].sz >= 2
           /\ queue[src].idxBack < queue[src].idxFront
           /\ Queue_eq(queue[last.this], queue[src])
           /\ queue[last.this].idxFront = 0

(* ------------------------------ C17 ------------------------------------ *)
\* The operations a copy or its original is mutated with.
Mutations == {"push", "emplace", "pop", "assign"}

\* C17: a push, emplace, pop or copy assignment applied to one container
\* leaves the size, the indices and the elements of every other container
\* unchanged, the container it was copied from or copied to included;
\* hence so does any sequence of them.
C17_CopyIndependence ==
    [][\A p \in Objs :
          (last'.op \in Mutations /\ last'.this # p) =>
              /\ queue'[p] = queue[p]
              /\ stack'[p] = stack[p]]_vars

\* A linearised queue that holds what a wrapped queue holds plus the
\* element just pushed onto it: a copy mutated after the copy was taken.
C17_Witness ==
    /\ unit = "Queue"
    /\ last.op \in Insertions
    /\ last.ret = "true"
    /\ queue[last.this].idxFront = 0
    /\ \E p \in Objs \ {last.this} :
           /\ queue[p].alive
           /\ queue[p].sz >= 1
           /\ queue[p].idxFront # 0
           /\ QueueElems(queue[last.this])
                  = Append(QueueElems(queue[p]), Queue_back(queue[last.this]))

(* ------------------------------ C18 ------------------------------------ *)
\* In the heap h the destination dst starts at cell 0 and holds in cells
\* 0 .. size-1 the elements src held, front first.
Relinearised(h, dst, src) ==
    /\ h[dst].idxFront = 0
    /\ h[dst].sz = Queue_size(queue[src])
    /\ h[dst].live = 0..(Queue_size(queue[src]) - 1)
    /\ \A i \in 1..Queue_size(queue[src]) :
           h[dst].data[i - 1] = QueueElems(queue[src])[i]

\* In the heap h the destination dst is empty and its indices are where
\* the pops of the elements it held before left them.
EmptiedInPlace(h, dst) ==
    /\ h[dst].sz = 0
    /\ h[dst].live = {}
    /\ h[dst].idxFront = (queue[dst].idxFront + queue[dst].sz) % SIZE
    /\ h[dst].idxBack = queue[dst].idxBack

\* C18 as stated: after copy construction or copy assignment from any
\* source, empty or not, the destination's idxFront is 0 and its live
\* elements occupy cells 0 .. source.size()-1 in front-to-back order.
C18_AlwaysRelinearised ==
    \A dst, src \in Objs :
        (dst # src /\ queue[src].alive) =>
            IF queue[dst].alive
            THEN Relinearised(Queue_assign(queue, dst, src), dst, src)
            ELSE Relinearised(Queue_copyCtor(queue, dst, src), dst, src)

\* C18 (amended): copy construction from any source and copy assignment
\* from a non-empty source leave the destination with idxFront = 0 and
\* its live elements in cells 0 .. source.size()-1 in front-to-back
\* order; copy assignment from an empty source leaves the destination
\* empty with idxFront and idxBack where popping its elements left them.
C18_RelinearisedUnlessEmptySource ==
    \A dst, src \in Objs :
        (dst # src /\ queue[src].alive) =>
            IF ~queue[dst].alive
            THEN Relinearised(Queue_copyCtor(queue, dst, src), dst, src)
            ELSE IF ~Queue_empty(queue[src])
                 THEN Relinearised(Queue_assign(queue, dst, src), dst, src)
                 ELSE EmptiedInPlace(Queue_assign(queue, dst, src), dst)

\* A queue that held elements has just been assigned to while another
\* queue is empty, and it is left empty with idxFront off cell 0.
C18_Witness ==
    /\ unit = "Queue"
    /\ last.op = "assign"
    /\ last.size >= 1
    /\ queue[last.this].sz = 0
    /\ queue[last.this].idxFront # 0
    /\ \E src \in Objs \ {last.this} :
           queue[src].alive /\ Queue_empty(queue[src])

(* ------------------------------ C19 ------------------------------------ *)
\* The Queue invariants on one object: index bounds, idxBack one cell
\* behind the end of the live range, live cells exactly the range.
QueueInv(q) ==
    /\ q.sz \in 0..SIZE
    /\ q.idxFront \in 0..(SIZE - 1)
    /\ q.idxBack \in 0..(SIZE - 1)
    /\ q.idxBack = (q.idxFront + q.sz + SIZE - 1) % SIZE
    /\ q.live = QueueRange(q)
    /\ \A c \in Cells : q.data[c] \in Values <=> c \in q.live

\* The Stack invariants on one object.
StackInv(s) ==
    /\ s.idxTop \in 0..SIZE
    /\ s.live = 0..(s.idxTop - 1)
    /\ \A c \in Cells : s.data[c] \in Values <=> c \in s.live

\* C19: for every pair of containers a and b (empty, full, wrapped, the
\* same object), after a.swap(b) the size and the front-to-back
\* (bottom-to-top) element sequence of a are those b had and vice versa,
\* and the Queue / Stack invariants hold for both.
C19_SwapExchanges ==
    \A a, b \in Objs :
        /\ (queue[a].alive /\ queue[b].alive) =>
               LET h == Queue_swap(queue, a, b)
               IN  /\ Queue_size(h[a]) = Queue_size(queue[b])
                   /\ Queue_size(h[b]) = Queue_size(queue[a])
                   /\ QueueElems(h[a]) = QueueElems(queue[b])
                   /\ QueueElems(h[b]) = QueueElems(queue[a])
                   /\ QueueInv(h[a]) /\ QueueInv(h[b])
                   /\ h[a].alive /\ h[b].alive
        /\ (stack[a].alive /\ stack[b].alive) =>
               LET h == Stack_swap(stack, a, b)
               IN  /\ Stack_size(h[a]) = Stack_size(stack[b])
                   /\ Stack_size(h[b]) = Stack_size(stack[a])
                   /\ StackElems(h[a]) = StackElems(stack[b])
                   /\ StackElems(h[b]) = StackElems(stack[a])
                   /\ StackInv(h[a]) /\ StackInv(h[b])
                   /\ h[a].alive /\ h[b].alive

\* A swap has just left one stack full and the other, which was full
\* before the call, empty.
C19_Witness ==
    /\ unit = "Stack"
    /\ last.op = "swap"
    /\ last.size = SIZE
    /\ Stack_empty(stack[last.this])
    /\ \E b \in Objs \ {last.this} :
           stack[b].alive /\ Stack_full(stack[b])

(* ------------------------------ C20 ------------------------------------ *)
RECURSIVE SumOver(_, _)
\* The sum of f[o] over the objects o of the set S.
SumOver(f, S) ==
    IF S = {} THEN 0
    ELSE LET o == CHOOSE x \in S : TRUE
         IN  f[o] + SumOver(f, S \ {o})

\* In-place constructions minus explicit destructions, over all storages.
QueueBalance == SumOver([o \in Objs |-> queue[o].balance], Objs)
StackBalance == SumOver([o \in Objs |-> stack[o].balance], Objs)

\* The live elements of the existing containers, by their size().
QueueLive ==
    SumOver([o \in Objs |-> Queue_size(queue[o])],
            {o \in Objs : queue[o].alive})
StackLive ==
    SumOver([o \in Objs |-> Stack_size(stack[o])],
            {o \in Objs : stack[o].alive})

\* C20: after any sequence of pushes, emplaces, pops, copy constructions,
\* copy assignments, swaps and destructions, constructions minus
\* destructions equals the number of live elements of the existing
\* containers; a destroyed container has left no element behind, so the
\* difference is 0 once every container is destroyed.
C20_DestructorCompleteness ==
    /\ QueueBalance = QueueLive
    /\ StackBalance = StackLive
    /\ \A o \in Objs :
           /\ queue[o].balance = Cardinality(queue[o].live)
           /\ stack[o].balance = Cardinality(stack[o].live)
           /\ ~queue[o].alive => queue[o].balance = 0
           /\ ~stack[o].alive => stack[o].balance = 0
           /\ queue[o].alive => Queue_dtor(queue[o]).balance = 0
           /\ stack[o].alive => Stack_dtor(stack[o]).balance = 0
    /\ (\A o \in Objs : ~queue[o].alive) => QueueBalance = 0
    /\ (\A o \in Objs : ~stack[o].alive) => StackBalance = 0

\* The last existing queue, holding elements, has just been destroyed.
C20_Witness ==
    /\ unit = "Queue"
    /\ last.op = "dtor"
    /\ last.size >= 1
    /\ \A o \in Objs : ~queue[o].alive
    /\ QueueBalance = 0

(* ------------------------------ C21 ------------------------------------ *)
RECURSIVE Queue1_pushAll(_, _, _)
\* The queue q after pushing the values from, from + 1, ..., to in turn.
Queue1_pushAll(q, from, to) ==
    IF from > to THEN q
    ELSE Queue1_pushAll(Queue1_push(q, from), from + 1, to)

\* C21: in the first-release Queue a push on a full queue evicts exactly
\* the oldest element: size() stays SIZE and the elements are the previous
\* ones without the oldest, followed by the new value (for both push
\* overloads); pushing 1..SIZE+1 into an empty queue leaves 2..SIZE+1 in
\* order; and size() never exceeds SIZE.
C21_OverwriteWhenFull ==
    /\ \A o \in Objs :
           /\ Queue1_size(queue1[o]) \in 0..SIZE
           /\ Queue1_full(queue1[o]) =>
                  \A v \in Values :
                      /\ Queue1_size(Queue1_push(queue1[o], v)) = SIZE
                      /\ QueueElems(Queue1_push(queue1[o], v))
                             = Append(Tail(QueueElems(queue1[o])), v)
                      /\ Queue1_size(Queue1_pushMove(queue1[o], v)) = SIZE
                      /\ QueueElems(Queue1_pushMove(queue1[o], v))
                             = Append(Tail(QueueElems(queue1[o])), v)
    /\ QueueElems(Queue1_pushAll(Queue1_Queue, 1, SIZE + 1))
           = [i \in 1..SIZE |-> i + 1]

\* A push on a full queue of capacity >= 2 has just evicted the oldest
\* element: the queue is full, starts off cell 0 and ends in a new value.
C21_Witness ==
    /\ unit = "Queue1"
    /\ SIZE >= 2
    /\ last.op = "push"
    /\ last.size = SIZE
    /\ Queue1_full(queue1[last.this])
    /\ queue1[last.this].idxFront # 0
    /\ queue1[last.this].data[queue1[last.this].idxBack]
           # queue1[last.this].data[queue1[last.this].idxFront]

(* ------------------------------ C22 ------------------------------------ *)
\* C22: in the first-release Queue, for every pair of queues a and b,
\* a.swap(b) leaves a with the size and the front-to-back elements b had
\* and b with those a had, also when b is empty and a is not, and
\* a.swap(b) gives the result b.swap(a) gives.
C22_Queue1SwapExchanges ==
    \A a, b \in Objs :
        LET h == Queue1_swap(queue1, a, b)
            g == Queue1_swap(queue1, b, a)
        IN  /\ Queue1_size(h[a]) = Queue1_size(queue1[b])
            /\ Queue1_size(h[b]) = Queue1_size(queue1[a])
            /\ QueueElems(h[a]) = QueueElems(queue1[b])
            /\ QueueElems(h[b]) = QueueElems(queue1[a])
            /\ QueueElems(h[a]) = QueueElems(g[a])
            /\ QueueElems(h[b]) = QueueElems(g[b])

(* ------------------------------ C23 ------------------------------------ *)
\* C23: Array::at(position) is checked access: its assertion holds for
\* every position in [0, SIZE-1], for which it refers to data[position],
\* and fails for every position >= SIZE.
C23_AtChecked ==
    \A o \in Objs : \A position \in Positions :
        IF position < array[o].SIZE
        THEN /\ Array_atAssert(array[o], position)
             /\ Array_at(array[o], position) = position
        ELSE ~Array_atAssert(array[o], position)

(* ------------------------------ C24 ------------------------------------ *)
\* The indices Fill(fillValue, startPos, endPos) is to set in arr.
FillTarget(arr, startPos, endPos) ==
    {i \in 0..(arr.SIZE - 1) : startPos <= i /\ i < endPos}

\* C24: Fill(fillValue, startPos, endPos) sets exactly the elements at the
\* indices i with startPos <= i < min(endPos, SIZE) to fillValue and
\* leaves every other element and every other array unchanged; with
\* startPos >= endPos or startPos >= SIZE nothing changes; no index >=
\* SIZE is written.
C24_FillRangeExact ==
    \A o \in Objs, v \in Values, startPos \in Positions,
       endPos \in Positions :
        LET h == Array_FillRange(array, o, v, startPos, endPos)
        IN  /\ \A i \in 0..(array[o].SIZE - 1) :
                   h[o].data[i] =
                       IF i \in FillTarget(array[o], startPos, endPos)
                       THEN v
                       ELSE array[o].data[i]
            /\ DOMAIN h[o].data = DOMAIN array[o].data
            /\ ~h[o].oob
            /\ \A p \in Objs \ {o} : h[p] = array[p]
            /\ (startPos >= endPos \/ startPos >= array[o].SIZE) =>
                   h = array

\* A Fill over a sub-range has just left an array of two or more elements
\* with its first element different from its last.
C24_Witness ==
    /\ unit = "Array"
    /\ last.op = "FillRange"
    /\ array[last.this].SIZE >= 2
    /\ array[last.this].data[0] \in Values
    /\ array[last.this].data[array[last.this].SIZE - 1]
           # array[last.this].data[0]

(* ------------------------------ C25 ------------------------------------ *)
\* The number of elements a converting copy from src into dst copies.
CopyCount(dst, src) ==
    IF array[dst].SIZE < array[src].SIZE
    THEN array[dst].SIZE
    ELSE array[src].SIZE

\* In the heap h the first CopyCount elements of dst are those of src, no
\* access left either array, and src is as it was.
Converted(h, dst, src) ==
    /\ \A i \in 0..(CopyCount(dst, src) - 1) :
           h[dst].data[i] = array[src].data[i]
    /\ DOMAIN h[dst].data = DOMAIN array[dst].data
    /\ ~h[dst].oob
    /\ ~h[src].oob
    /\ h[src] = array[src]

\* C25: the converting constructor and operator= from an Array<U, M> into
\* an Array<T, N> copy min(N, M) elements: the elements below min(N, M)
\* equal the source's, on assignment the elements from min(N, M) on keep
\* their values, the source is not read at an index >= M and the
\* destination not written at an index >= N.
C25_ConvertingCopy ==
    \A dst, src \in Objs :
        dst # src =>
            /\ Converted(Array_copyCtor(array, dst, src), dst, src)
            /\ Converted(Array_assign(array, dst, src), dst, src)
            /\ \A i \in CopyCount(dst, src)..(array[dst].SIZE - 1) :
                   Array_assign(array, dst, src)[dst].data[i]
                       = array[dst].data[i]

\* A larger array has just been assigned a smaller one: its first
\* elements are the source's and its last element is one it held before.
C25_Witness ==
    /\ unit = "Array"
    /\ last.op = "assign"
    /\ \E src \in Objs \ {last.this} :
           /\ array[src].SIZE < array[last.this].SIZE
           /\ \A i \in 0..(array[src].SIZE - 1) :
                  /\ array[src].data[i] \in Values
                  /\ array[last.this].data[i] = array[src].data[i]
           /\ array[last.this].data[array[last.this].SIZE - 1] \in Values
           /\ array[last.this].data[array[last.this].SIZE - 1]
                  # array[src].data[0]

(* ------------------------------ C26 ------------------------------------ *)
\* C26: for two distinct arrays a and b of one type and size, a.Swap(b)
\* leaves a holding b's previous elements and b holding a's, position by
\* position; a.Swap(a) changes nothing; a.Swap(b) applied twice restores
\* both arrays.
C26_SwapInvolution ==
    \A a, b \in Objs :
        array[a].SIZE = array[b].SIZE =>
            LET h == Array_Swap(array, a, b)
            IN  /\ a # b => /\ h[a].data = array[b].data
                            /\ h[b].data = array[a].data
                            /\ ~h[a].oob /\ ~h[b].oob
                /\ a = b => h = array
                /\ Array_Swap(h, a, b) = array

\* A Swap has just exchanged two arrays that differ in every position.
C26_Witness ==
    /\ unit = "Array"
    /\ last.op = "Swap"
    /\ SIZE = uSIZE
    /\ SIZE >= 2
    /\ \A i \in 0..(SIZE - 1) :
           /\ array["a"].data[i] \in Values
           /\ array["b"].data[i] \in Values
           /\ array["a"].data[i] # array["b"].data[i]
    /\ array["a"].data[0] # array["a"].data[1]

(* ------------------------------ C27 ------------------------------------ *)
\* C27: in every step of every sequence of push, emplace, pop, copy
\* construction, copy assignment and destruction of the latest Queue and
\* Stack, each placement construction targets a dead cell and each
\* explicit destructor call a live cell: no cell is constructed twice
\* without a destruction in between, none destroyed twice or while dead.
C27_LifetimeDiscipline ==
    \A o \in Objs :
        /\ ~queue[o].misuse
        /\ ~stack[o].misuse

\* A queue holding elements has just been copy-assigned a queue that
\* wraps: its cells were destroyed and then constructed again.
C27_Witness ==
    /\ unit = "Queue"
    /\ last.op = "assign"
    /\ last.size >= 1
    /\ queue[last.this].sz >= 2
    /\ \E p \in Objs \ {last.this} :
           /\ queue[p].alive
           /\ queue[p].idxFront # 0
           /\ QueueElems(queue[p]) = QueueElems(queue[last.this])

(* ------------------------------ C28 ------------------------------------ *)
\* C28: assigning a latest Queue or Stack to itself (q = q) leaves its
\* size and its element sequence unchanged.
C28_SelfAssignment ==
    \A o \in Objs :
        /\ queue[o].alive =>
               /\ Queue_size(Queue_assign(queue, o, o)[o])
                      = Queue_size(queue[o])
               /\ QueueElems(Queue_assign(queue, o, o)[o])
                      = QueueElems(queue[o])
        /\ stack[o].alive =>
               /\ Stack_size(Stack_assign(stack, o, o)[o])
                      = Stack_size(stack[o])
               /\ StackElems(Stack_assign(stack, o, o)[o])
                      = StackElems(stack[o])

(* ------------------------------ C29 ------------------------------------ *)
\* C29: in every reachable state of the latest Queue, the empty ones
\* included, idxBack = (idxFront + sz - 1) mod SIZE; so a push on a
\* queue that is not full constructs into cell (idxFront + sz) mod SIZE,
\* and that cell is dead.
C29_IndexRelation ==
    \A o \in Objs :
        /\ queue[o].idxBack
               = (queue[o].idxFront + queue[o].sz + SIZE - 1) % SIZE
        /\ (queue[o].alive /\ ~Queue_full(queue[o])) =>
               LET cell == (queue[o].idxFront + queue[o].sz) % SIZE
               IN  /\ cell \notin queue[o].live
                   /\ queue[o].data[cell] = Dead
                   /\ \A v \in Values :
                          /\ Queue_push(queue[o], v).obj.idxBack = cell
                          /\ Queue_push(queue[o], v).obj.live
                                 = queue[o].live \cup {cell}

\* A pop has just emptied a queue, leaving idxFront off cell 0 and
\* idxBack one cell behind it.
C29_Witness ==
    /\ unit = "Queue"
    /\ last.op = "pop"
    /\ last.size = 1
    /\ Queue_empty(queue[last.this])
    /\ queue[last.this].idxFront # 0
    /\ queue[last.this].idxBack = queue[last.this].idxFront - 1

(* ------------------------------ C30 ------------------------------------ *)
\* The heap h with the trace of object o switched on and empty.
Traced(h, o) ==
    [h EXCEPT ![o].trace = [on |-> TRUE, events |-> <<>>]]

\* The events ev are: one destruction of each of the cells in old, then
\* the constructions of the elements elems in cells 0, 1, ... in turn.
DestroyThenCopy(ev, old, elems) ==
    LET n == Cardinality(old)
    IN  /\ Len(ev) = n + Len(elems)
        /\ \A i \in 1..n : ev[i].kind = "delete" /\ ev[i].value \in Values
        /\ {ev[i].cell : i \in 1..n} = old
        /\ \A i \in 1..Len(elems) :
               /\ ev[n + i].kind = "new"
               /\ ev[n + i].cell = i - 1
               /\ ev[n + i].value = elems[i]
               /\ ev[n + i].value \in Values

\* C30: during dest = source (distinct objects) of the latest Queue and
\* Stack every destruction of a previously live destination element
\* happens before the first construction of a copy, each previous element
\* is destroyed exactly once, and exactly source.size() elements are then
\* constructed, each from a live cell of the source.
C30_AssignOrdering ==
    \A dst, src \in Objs :
        /\ (dst # src /\ queue[dst].alive /\ queue[src].alive) =>
               DestroyThenCopy(
                   Queue_assign(Traced(queue, dst), dst, src)[dst]
                       .trace.events,
                   queue[dst].live, QueueElems(queue[src]))
        /\ (dst # src /\ stack[dst].alive /\ stack[src].alive) =>
               DestroyThenCopy(
                   Stack_assign(Traced(stack, dst), dst, src)[dst]
                       .trace.events,
                   stack[dst].live, StackElems(stack[src]))

\* A stack holding elements has just been assigned another number of
\* elements: it now holds what the source holds.
C30_Witness ==
    /\ unit = "Stack"
    /\ last.op = "assign"
    /\ last.size >= 1
    /\ stack[last.this].idxTop >= 1
    /\ stack[last.this].idxTop # last.size
    /\ \E src \in Objs \ {last.this} :
           /\ stack[src].alive
           /\ StackElems(stack[src]) = StackElems(stack[last.this])

(* ------------------------------ C31 ------------------------------------ *)
\* The events ev are destructions only, of the cells cells[1], cells[2],
\* ... in turn.
DestroysInOrder(ev, cells) ==
    /\ Len(ev) = Len(cells)
    /\ \A i \in 1..Len(ev) :
           /\ ev[i].kind = "delete"
           /\ ev[i].cell = cells[i]
           /\ ev[i].value \in Values

\* C31: from every reachable state the destructor's loop
\* while(!empty()) pop() ends after exactly size() iterations with
\* size() = 0 and no live cell, having destroyed the elements front to
\* back (Queue) or top to bottom (Stack).
C31_DestructorTerminates ==
    \A o \in Objs :
        /\ queue[o].alive =>
               LET r == Queue_dtor(Traced(queue, o)[o])
               IN  /\ Queue_size(r) = 0
                   /\ r.live = {}
                   /\ ~r.alive
                   /\ DestroysInOrder(r.trace.events,
                          [i \in 1..Queue_size(queue[o]) |->
                              (queue[o].idxFront + i - 1) % SIZE])
        /\ stack[o].alive =>
               LET r == Stack_dtor(Traced(stack, o)[o])
               IN  /\ Stack_size(r) = 0
                   /\ r.live = {}
                   /\ ~r.alive
                   /\ DestroysInOrder(r.trace.events,
                          [i \in 1..Stack_size(stack[o]) |->
                              Stack_size(stack[o]) - i])

\* A stack holding two or more elements has just been destroyed.
C31_Witness ==
    /\ unit = "Stack"
    /\ last.op = "dtor"
    /\ last.size >= 2
    /\ ~stack[last.this].alive
    /\ stack[last.this].live = {}
    /\ Stack_size(stack[last.this]) = 0

(* ------------------------------ C32 ------------------------------------ *)
\* C32: on all reachable states operator== of the latest Queue and Stack
\* is reflexive and symmetric, and a != b is true exactly when a == b is
\* false (Queue::operator!= compares with the operands exchanged).
C32_EqualityAlgebra ==
    \A a, b \in Objs :
        /\ (queue[a].alive /\ queue[b].alive) =>
               /\ Queue_eq(queue[a], queue[a])
               /\ Queue_eq(queue[a], queue[b]) <=> Queue_eq(queue[b], queue[a])
               /\ Queue_ne(queue[a], queue[b]) <=> ~Queue_eq(queue[a], queue[b])
        /\ (stack[a].alive /\ stack[b].alive) =>
               /\ Stack_eq(stack[a], stack[a])
               /\ Stack_eq(stack[a], stack[b]) <=> Stack_eq(stack[b], stack[a])
               /\ Stack_ne(stack[a], stack[b]) <=> ~Stack_eq(stack[a], stack[b])

\* Two stacks of different sizes, the smaller a prefix of the larger:
\* they compare unequal from either side.
C32_Witness ==
    /\ unit = "Stack"
    /\ stack["a"].alive /\ stack["b"].alive
    /\ Stack_size(stack["a"]) >= 1
    /\ Stack_size(stack["b"]) > Stack_size(stack["a"])
    /\ \A i \in 1..Stack_size(stack["a"]) :
           StackElems(stack["a"])[i] = StackElems(stack["b"])[i]
    /\ Stack_ne(stack["a"], stack["b"])
    /\ Stack_ne(stack["b"], stack["a"])

(* ------------------------ first-release Stack -------------------------- *)
(* The Stack of QueueContainer.h keeps its elements in value_type          *)
(* data[SIZE]: a popped element stays in its cell. A Stack object is the   *)
(* record of its members sz, idxTop and data.                              *)

\* using size_type = std::size_t: the width of the unsigned index type
SizeBits == 16

\* unsigned arithmetic of size_type
Wrap(n) == n % (2 ^ SizeBits)

Stack1_empty(s) == 0 = s.sz
Stack1_full(s) == SIZE = s.sz
Stack1_size(s) == s.sz

\* Stack::Stack(): value_type data[SIZE] default-constructs every element
Stack1_Stack ==
    [sz |-> 0, idxTop |-> 0, data |-> [c \in Cells |-> Default]]

RECURSIVE Stack1_copyLoop(_, _, _)
\* the copy loop of Stack::Stack(const Stack&)
Stack1_copyLoop(this, copyStack, elemIdx) ==
    IF elemIdx < copyStack.sz
    THEN Stack1_copyLoop(
             [this EXCEPT !.data[elemIdx] = copyStack.data[elemIdx]],
             copyStack, elemIdx + 1)
    ELSE this

\* Stack::Stack(const Stack& copyStack)
Stack1_copyCtor(copyStack) ==
    IF ~Stack1_empty(copyStack)
    THEN [Stack1_copyLoop(Stack1_Stack, copyStack, 0) EXCEPT
              !.idxTop = copyStack.idxTop, !.sz = copyStack.sz]
    ELSE Stack1_Stack

\* Stack::top() const: the index of the element it refers to
Stack1_topConstRef(s) == Wrap(s.idxTop - 1)

\* Stack::top(): the index of the element it refers to
Stack1_topRef(s) ==
    IF Stack1_empty(s) THEN 0 ELSE Wrap(s.idxTop - 1)

\* Stack::push(const value_type&)
Stack1_push(s, value) ==
    IF Stack1_full(s) THEN s
    ELSE [s EXCEPT !.data[s.idxTop] = value,
                   !.idxTop = Wrap(@ + 1), !.sz = Wrap(@ + 1)]

\* Stack::push(value_type&&): the same statements with std::move(value)
Stack1_pushMove(s, value) ==
    IF Stack1_full(s) THEN s
    ELSE [s EXCEPT !.data[s.idxTop] = value,
                   !.idxTop = Wrap(@ + 1), !.sz = Wrap(@ + 1)]

\* Stack1_pop that leaves sz as it is.
Stack1_pop_KeepSize(s) ==
    IF Stack1_empty(s) THEN s
    ELSE [s EXCEPT !.idxTop = Wrap(@ - 1)]

\* Stack::pop(): the popped element stays in its cell
Stack1_pop(s) ==
    IF Stack1_empty(s) THEN s
    ELSE [s EXCEPT !.idxTop = Wrap(@ - 1), !.sz = Wrap(@ - 1)]

\* Stack::swap(Stack& swapStack)
Stack1_swap(h, this, swapStack) ==
    [h EXCEPT ![this] = h[swapStack], ![swapStack] = h[this]]

(* ------------------------- byte-buffer Stack --------------------------- *)
(* The second Stack of part_001 keeps its elements in std::uint8_t         *)
(* data[SIZE * sizeof(T)]. T is an unsigned integer of build.sizeofT       *)
(* bytes, stored least significant byte first when build.little holds.     *)
(* data maps the byte indices to byte values; the bytes of a destroyed     *)
(* element hold Dead.                                                      *)

\* the element sizes sizeof(T) of the builds
MaxSizeof == 2

Builds == [sizeofT : 1..MaxSizeof, little : BOOLEAN]

\* the byte indices of std::uint8_t data[SIZE * sizeof(T)]
ByteCells == 0..(SIZE * build.sizeofT - 1)

\* byte j of the object representation of the value of a T
ByteOf(value, j) ==
    IF build.little
    THEN (value \div (256 ^ j)) % 256
    ELSE (value \div (256 ^ (build.sizeofT - 1 - j))) % 256

RECURSIVE ValueOf(_, _, _)
\* the value of the T whose object representation starts at byte first:
\* the sum of its bytes j .. sizeof(T)-1, each at its weight
ValueOf(data, first, j) ==
    IF j < build.sizeofT
    THEN data[first + j] *
             (IF build.little THEN 256 ^ j
              ELSE 256 ^ (build.sizeofT - 1 - j))
         + ValueOf(data, first, j + 1)
    ELSE 0

\* reinterpret_cast<value_type*>(data)[elemIdx]
Stack2_at(s, elemIdx) == ValueOf(s.data, elemIdx * build.sizeofT, 0)

\* new(reinterpret_cast<value_type*>(data) + elemIdx) value_type(value)
Stack2_Construct(s, elemIdx, value) ==
    [s EXCEPT !.data = [b \in ByteCells |->
        IF b \div build.sizeofT = elemIdx
        THEN ByteOf(value, b % build.sizeofT)
        ELSE @[b]]]

\* reinterpret_cast<value_type*>(data)[elemIdx].~value_type()
Stack2_Destruct(s, elemIdx) ==
    [s EXCEPT !.data = [b \in ByteCells |->
        IF b \div build.sizeofT = elemIdx THEN Dead ELSE @[b]]]

Stack2_empty(s) == 0 = s.sz
Stack2_full(s) == SIZE = s.sz
Stack2_size(s) == s.sz

\* Stack::Stack(): the buffer holds no element
Stack2_Stack ==
    [sz |-> 0, idxTop |-> 0, data |-> [b \in ByteCells |-> Dead]]

RECURSIVE Stack2_copyLoop(_, _, _)
\* the copy loop of Stack::Stack(const Stack&): element elemIdx is
\* constructed from copyStack.data[elemIdx], byte elemIdx of the buffer
Stack2_copyLoop(this, copyStack, elemIdx) ==
    IF elemIdx < copyStack.sz
    THEN Stack2_copyLoop(
             Stack2_Construct(this, elemIdx, copyStack.data[elemIdx]),
             copyStack, elemIdx + 1)
    ELSE this

\* Stack::Stack(const Stack& copyStack)
Stack2_copyCtor(copyStack) ==
    IF ~Stack2_empty(copyStack)
    THEN [Stack2_copyLoop(Stack2_Stack, copyStack, 0) EXCEPT
              !.idxTop = copyStack.idxTop, !.sz = copyStack.sz]
    ELSE Stack2_Stack

\* Stack::top() and Stack::top() const: the index of the element referred to
Stack2_topRef(s) ==
    IF Stack2_empty(s) THEN 0 ELSE Wrap(s.idxTop - 1)

\* Stack::push(const value_type&)
Stack2_push(s, value) ==
    IF Stack2_full(s) THEN [obj |-> s, ret |-> "false"]
    ELSE [obj |-> [Stack2_Construct(s, s.idxTop, value) EXCEPT
                       !.idxTop = Wrap(@ + 1), !.sz = Wrap(@ + 1)],
          ret |-> "true"]

\* Stack::emplace(Args&&...)
Stack2_emplace(s, args) ==
    IF Stack2_full(s) THEN [obj |-> s, ret |-> "false"]
    ELSE [obj |-> [Stack2_Construct(s, s.idxTop, args) EXCEPT
                       !.idxTop = Wrap(@ + 1), !.sz = Wrap(@ + 1)],
          ret |-> "true"]

\* Stack::push(value_type&&): emplace(std::move(value))
Stack2_pushMove(s, value) == Stack2_emplace(s, value)

\* Stack::pop()
Stack2_pop(s) ==
    IF Stack2_empty(s) THEN s
    ELSE [Stack2_Destruct(s, Wrap(s.idxTop - 1)) EXCEPT
              !.idxTop = Wrap(@ - 1), !.sz = Wrap(@ - 1)]

\* Stack::swap(Stack& swapStack)
Stack2_swap(h, this, swapStack) ==
    [h EXCEPT ![this] = h[swapStack], ![swapStack] = h[this]]

(* ----------------------------- early Array ----------------------------- *)
(* The Array of part_003 has the one member T data[SIZE]. An object is the *)
(* record of data and of the ghost flag oob, which tells that a            *)
(* constructor wrote outside data[0 .. SIZE-1].                            *)

\* Array() noexcept = default
Array0_Array == [data |-> [c \in Cells |-> Default], oob |-> FALSE]

\* The assignment data[index] = value
Array0_Store(arr, index, value) ==
    IF index \in Cells
    THEN [arr EXCEPT !.data[index] = value]
    ELSE [arr EXCEPT !.oob = TRUE]

\* Array::Array(const T& fillValue): for(T& element : data)
Array0_fillCtor(fillValue) ==
    [Array0_Array EXCEPT !.data = [c \in Cells |-> fillValue]]

\* Array::Array(const Array& copyArr): memcpy of sizeof(T) * SIZE bytes
Array0_copyCtor(copyArr) ==
    [Array0_Array EXCEPT !.data = [c \in Cells |-> copyArr.data[c]]]

\* a C-style array passed by pointer: the null pointer, or a buffer
NullPtr == [null |-> TRUE, elems |-> <<>>]
Buffer(elems) == [null |-> FALSE, elems |-> elems]

\* Array::Array(const T* const source, const std::size_t sourceSize):
\* memcpy of (sourceSize < SIZE ? sourceSize : SIZE) elements
Array0_bufferCtor(source, sourceSize) ==
    IF ~source.null
    THEN LET count == IF sourceSize < SIZE THEN sourceSize ELSE SIZE
         IN  [Array0_Array EXCEPT !.data = [c \in Cells |->
                 IF c < count THEN source.elems[c + 1] ELSE @[c]]]
    ELSE Array0_Array

RECURSIVE Array0_listLoop(_, _, _)
\* for(const T& element : initializerList) data[index++] = element;
Array0_listLoop(arr, initializerList, index) ==
    IF index < Len(initializerList)
    THEN Array0_listLoop(
             Array0_Store(arr, index, initializerList[index + 1]),
             initializerList, index + 1)
    ELSE arr

\* Array::Array(std::initializer_list<T> initializerList)
Array0_listCtor(initializerList) ==
    Array0_listLoop(Array0_Array, initializerList, 0)

(* ---------------------- the early Stacks' machine ---------------------- *)
\* The behaviours exercise the first-release Stack (unit "Stack1") or the
\* byte-buffer Stack (unit "Stack2"), the latter in every build.
InitStacks ==
    /\ SIZE \in 1..MaxSIZE
    /\ unit \in {"Stack1", "Stack2"}
    /\ build \in IF unit = "Stack2" THEN Builds
                 ELSE {[sizeofT |-> 1, little |-> TRUE]}
    /\ queue = <<>> /\ stack = <<>> /\ queue1 = <<>> /\ array = <<>>
    /\ uSIZE = 1
    /\ stack1 = [o \in Objs |-> Stack1_Stack]
    /\ stack2 = [o \in Objs |-> Stack2_Stack]
    /\ array0 = <<>>
    /\ last = Call("ctor", "a", 0, "void")

S1Push(o, v) ==
    /\ unit = "Stack1"
    /\ stack1' = [stack1 EXCEPT ![o] = Stack1_push(@, v)]
    /\ last' = Call("push", o, Stack1_size(stack1[o]), "void")
    /\ UNCHANGED <<SIZE, unit, queue, stack, queue1, array, uSIZE,
                   stack2, build, array0>>

S1PushMove(o, v) ==
    /\ unit = "Stack1"
    /\ stack1' = [stack1 EXCEPT ![o] = Stack1_pushMove(@, v)]
    /\ last' = Call("push", o, Stack1_size(stack1[o]), "void")
    /\ UNCHANGED <<SIZE, unit, queue, stack, queue1, array, uSIZE,
                   stack2, build, array0>>

S1Pop(o) ==
    /\ unit = "Stack1"
    /\ stack1' = [stack1 EXCEPT ![o] = Stack1_pop(@)]
    /\ last' = Call("pop", o, Stack1_size(stack1[o]), "void")
    /\ UNCHANGED <<SIZE, unit, queue, stack, queue1, array, uSIZE,
                   stack2, build, array0>>

S1Swap(o, p) ==
    /\ unit = "Stack1"
    /\ stack1' = Stack1_swap(stack1, o, p)
    /\ last' = Call("swap", o, Stack1_size(stack1[o]), "void")
    /\ UNCHANGED <<SIZE, unit, queue, stack, queue1, array, uSIZE,
                   stack2, build, array0>>

\* The object o ends and a stack is default-constructed in its place.
S1Ctor(o) ==
    /\ unit = "Stack1"
    /\ stack1' = [stack1 EXCEPT ![o] = Stack1_Stack]
    /\ last' = Call("ctor", o, 0, "void")
    /\ UNCHANGED <<SIZE, unit, queue, stack, queue1, array, uSIZE,
                   stack2, build, array0>>

\* The object o ends and a copy of p is constructed in its place.
S1CopyCtor(o, p) ==
    /\ unit = "Stack1" /\ o # p
    /\ stack1' = [stack1 EXCEPT ![o] = Stack1_copyCtor(stack1[p])]
    /\ last' = Call("copyCtor", o, 0, "void")
    /\ UNCHANGED <<SIZE, unit, queue, stack, queue1, array, uSIZE,
                   stack2, build, array0>>

S2Push(o, v) ==
    /\ unit = "Stack2"
    /\ stack2' = [stack2 EXCEPT ![o] = Stack2_push(@, v).obj]
    /\ last' = Call("push", o, Stack2_size(stack2[o]),
                  Stack2_push(stack2[o], v).ret)
    /\ UNCHANGED <<SIZE, unit, queue, stack, queue1, array, uSIZE,
                   stack1, build, array0>>

S2PushMove(o, v) ==
    /\ unit = "Stack2"
    /\ stack2' = [stack2 EXCEPT ![o] = Stack2_pushMove(@, v).obj]
    /\ last' = Call("push", o, Stack2_size(stack2[o]),
                  Stack2_pushMove(stack2[o], v).ret)
    /\ UNCHANGED <<SIZE, unit, queue, stack, queue1, array, uSIZE,
                   stack1, build, array0>>

S2Emplace(o, v) ==
    /\ unit = "Stack2"
    /\ stack2' = [stack2 EXCEPT ![o] = Stack2_emplace(@, v).obj]
    /\ last' = Call("emplace", o, Stack2_size(stack2[o]),
                  Stack2_emplace(stack2[o], v).ret)
    /\ UNCHANGED <<SIZE, unit, queue, stack, queue1, array, uSIZE,
                   stack1, build, array0>>

S2Pop(o) ==
    /\ unit = "Stack2"
    /\ stack2' = [stack2 EXCEPT ![o] = Stack2_pop(@)]
    /\ last' = Call("pop", o, Stack2_size(stack2[o]), "void")
    /\ UNCHANGED <<SIZE, unit, queue, stack, queue1, array, uSIZE,
                   stack1, build, array0>>

S2Swap(o, p) ==
    /\ unit = "Stack2"
    /\ stack2' = Stack2_swap(stack2, o, p)
    /\ last' = Call("swap", o, Stack2_size(stack2[o]), "void")
    /\ UNCHANGED <<SIZE, unit, queue, stack, queue1, array, uSIZE,
                   stack1, build, array0>>

\* The object o ends and a stack is default-constructed in its place.
S2Ctor(o) ==
    /\ unit = "Stack2"
    /\ stack2' = [stack2 EXCEPT ![o] = Stack2_Stack]
    /\ last' = Call("ctor", o, 0, "void")
    /\ UNCHANGED <<SIZE, unit, queue, stack, queue1, array, uSIZE,
                   stack1, build, array0>>

\* The object o ends and a copy of p is constructed in its place.
S2CopyCtor(o, p) ==
    /\ unit = "Stack2" /\ o # p
    /\ stack2' = [stack2 EXCEPT ![o] = Stack2_copyCtor(stack2[p])]
    /\ last' = Call("copyCtor", o, 0, "void")
    /\ UNCHANGED <<SIZE, unit, queue, stack, queue1, array, uSIZE,
                   stack1, build, array0>>

NextStacks ==
    \/ \E o \in Objs, v \in Values : S1Push(o, v)
    \/ \E o \in Objs, v \in Values : S1PushMove(o, v)
    \/ \E o \in Objs : S1Pop(o)
    \/ \E o, p \in Objs : S1Swap(o, p)
    \/ \E o \in Objs : S1Ctor(o)
    \/ \E o, p \in Objs : S1CopyCtor(o, p)
    \/ \E o \in Objs, v \in Values : S2Push(o, v)
    \/ \E o \in Objs, v \in Values : S2PushMove(o, v)
    \/ \E o \in Objs, v \in Values : S2Emplace(o, v)
    \/ \E o \in Objs : S2Pop(o)
    \/ \E o, p \in Objs : S2Swap(o, p)
    \/ \E o \in Objs : S2Ctor(o)
    \/ \E o, p \in Objs : S2CopyCtor(o, p)

SpecStacks == InitStacks /\ [][NextStacks]_vars

(* ---------------------- the early Array's machine ---------------------- *)
\* The initializer lists and buffers passed to the constructors: shorter
\* than, as long as and longer than the array.
Lists == UNION {[1..n -> Values] : n \in 0..(MaxSIZE + 1)}

InitArray0 ==
    /\ SIZE \in 1..MaxSIZE
    /\ unit = "Array0"
    /\ queue = <<>> /\ stack = <<>> /\ queue1 = <<>> /\ array = <<>>
    /\ uSIZE = 1
    /\ stack1 = <<>> /\ stack2 = <<>> /\ build = <<>>
    /\ array0 = [o \in Objs |-> Array0_Array]
    /\ last = Call("ctor", "a", 0, "void")

\* The object o ends and an array is constructed in its place.
A0Ctor(o) ==
    /\ array0' = [array0 EXCEPT ![o] = Array0_Array]
    /\ last' = Call("ctor", o, SIZE, "void")
    /\ UNCHANGED <<SIZE, unit, queue, stack, queue1, array, uSIZE,
                   stack1, stack2, build>>

A0FillCtor(o, v) ==
    /\ array0' = [array0 EXCEPT ![o] = Array0_fillCtor(v)]
    /\ last' = Call("fillCtor", o, SIZE, "void")
    /\ UNCHANGED <<SIZE, unit, queue, stack, queue1, array, uSIZE,
                   stack1, stack2, build>>

A0CopyCtor(o, p) ==
    /\ o # p
    /\ array0' = [array0 EXCEPT ![o] = Array0_copyCtor(array0[p])]
    /\ last' = Call("copyCtor", o, SIZE, "void")
    /\ UNCHANGED <<SIZE, unit, queue, stack, queue1, array, uSIZE,
                   stack1, stack2, build>>

A0BufferCtor(o, source) ==
    /\ array0' = [array0 EXCEPT ![o] =
                      Array0_bufferCtor(source, Len(source.elems))]
    /\ last' = Call("bufferCtor", o, Len(source.elems), "void")
    /\ UNCHANGED <<SIZE, unit, queue, stack, queue1, array, uSIZE,
                   stack1, stack2, build>>

A0ListCtor(o, list) ==
    /\ array0' = [array0 EXCEPT ![o] = Array0_listCtor(list)]
    /\ last' = Call("listCtor", o, Len(list), "void")
    /\ UNCHANGED <<SIZE, unit, queue, stack, queue1, array, uSIZE,
                   stack1, stack2, build>>

NextArray0 ==
    \/ \E o \in Objs : A0Ctor(o)
    \/ \E o \in Objs, v \in Values : A0FillCtor(o, v)
    \/ \E o, p \in Objs : A0CopyCtor(o, p)
    \/ \E o \in Objs, l \in Lists : A0BufferCtor(o, Buffer(l))
    \/ \E o \in Objs : A0BufferCtor(o, NullPtr)
    \/ \E o \in Objs, l \in Lists : A0ListCtor(o, l)

SpecArray0 == InitArray0 /\ [][NextArray0]_vars

(* ------------------------------- C33 ----------------------------------- *)
\* The elements a byte-buffer stack holds, bottom first
Stack2_elements(s) == [i \in 1..s.sz |-> Stack2_at(s, i - 1)]

\* C33: the copy constructor of the byte-buffer Stack constructs element
\* elemIdx of the destination as a copy of element elemIdx of the source for
\* every elemIdx < source.size(): the copy has the size and the elements of
\* the source in the same order, for every element size sizeof(T) >= 1.
C33_CopyKeepsElements ==
    unit = "Stack2" =>
        \A o \in Objs :
            LET copy == Stack2_copyCtor(stack2[o])
            IN  /\ Stack2_size(copy) = Stack2_size(stack2[o])
                /\ Stack2_elements(copy) = Stack2_elements(stack2[o])

(* ------------------------------- C34 ----------------------------------- *)
\* C34: in every reachable state of the first-release Stack, the empty
\* stack included, both overloads of top() index data inside
\* [0, SIZE-1], idxTop - 1 being computed in the unsigned size_type.
C34_TopIndexInRange ==
    unit = "Stack1" =>
        \A o \in Objs :
            /\ Stack1_topConstRef(stack1[o]) \in Cells
            /\ Stack1_topRef(stack1[o]) \in Cells

(* ------------------------------- C35 ----------------------------------- *)
\* C35: for every length of the list, the initializer-list constructor of
\* the early Array writes only to the indices [0, SIZE-1] and copies the
\* first min(length, SIZE) elements, as the constructor from a C-style
\* array does.
C35_ListCtorBounded ==
    \A list \in Lists :
        LET byList == Array0_listCtor(list)
            byBuffer == Array0_bufferCtor(Buffer(list), Len(list))
        IN  /\ ~byList.oob
            /\ byList.data = byBuffer.data
            /\ \A c \in Cells : c < Len(list) => byList.data[c] = list[c + 1]

(* ------------------------------- C36 ----------------------------------- *)
\* C36: for every SIZE >= 1 and every index in [0, SIZE-1], the branch form
\* of IncrementIndex of the latest Queue and the modulo form of the
\* first-release Queue give the same index, and it lies in [0, SIZE-1].
C36_IncrementIndexAgree ==
    \A index \in Cells :
        /\ IncrementIndex(index) = Queue1_IncrementIndex(index)
        /\ IncrementIndex(index) \in Cells

\* A push has moved idxBack from SIZE-1 round to 0 in a queue of two cells
\* or more that held an element.
C36_Witness ==
    /\ unit = "Queue" /\ SIZE >= 2
    /\ last.op = "push" /\ last.ret = "true" /\ last.size >= 1
    /\ queue[last.this].idxBack = 0

(* ------------------------------- C37 ----------------------------------- *)
\* C37: in the first-release Stack and in the byte-buffer Stack, after any
\* sequence of constructions, pushes, emplaces, pops, swaps and copy
\* constructions, sz = idxTop and 0 <= sz <= SIZE.
C37_CountersAgree ==
    \A o \in Objs :
        /\ stack1[o].sz = stack1[o].idxTop
        /\ stack1[o].sz \in 0..SIZE
        /\ stack2[o].sz = stack2[o].idxTop
        /\ stack2[o].sz \in 0..SIZE

\* A full first-release stack of two cells or more has been popped.
C37_Witness ==
    /\ unit = "Stack1" /\ SIZE >= 2
    /\ last.op = "pop" /\ last.size = SIZE
    /\ stack1[last.this].sz = SIZE - 1
    /\ stack1[last.this].idxTop = SIZE - 1

====
